---- MODULE Spec2Model ----
(***************************************************************************)
(* The Room Event Hub of RogueLearn.CodeBattle (package hub) together with *)
(* the HTTP handlers that produce its events and the relational store it   *)
(* writes to.  One action per handler or goroutine step.                   *)
(***************************************************************************)
EXTENDS Integers, Sequences, FiniteSets, TLC

(* ------------------------------ bounds --------------------------------- *)
\* SSE connections opened over a run (JoinRoomHandler calls).
MaxConnects == 1
\* In-room submissions posted over a run (SubmitSolutionInRoomHandler calls).
MaxSubmits == 1
\* Store calls that return an error over a run.
MaxFailures == 1
\* Dispatch goroutines (dispatchEvent / dispatchEventToPlayer and their
\* per-listener senders) alive at the same time.
MaxGoroutines == 2
\* SSE connections of the one player of the rejoin scenario.
RejoinConnects == 2
\* Submissions posted in the backpressure scenario: one for the loop of the
\* room to work on plus a full queue.
BurstSubmits == 11
\* WorkerPoolOptions.MaxWorkers and .MaxJobCount of the pool scenario, and the
\* ExecuteJob calls made in it.
ListenConnects == 2
MaxDriverLen == 3
MaxUserLen == 2
MaxBuilds == 2
MaxNotifies == 2
\* Requests the direct submit handler serves over a run.
MaxDirect == 2
\* Accepted submissions made one after the other while the Event Hub consumes
\* no notification: one more than the guild channel holds.
FillSubmits == 101
\* Test cases of a job, and the length of an output of the program or of a
\* test case.
MaxTestCases == 2
MaxOutLen == 2
MaxWorkers == 2
MaxJobCount == 1
MaxCalls == 3

(* -------------------------- program constants -------------------------- *)
\* make(chan any, 10)
EventsCap == 10
\* make(chan uuid.UUID, 100)
GuildUpdateCap == 100
\* Score: 50, //change later
AcceptedScore == 50

(* ------------------------------ inputs ---------------------------------- *)
Players == {"p1", "p2"}
\* beginnerArea and advancedLobby are registered by NewEventHub itself.
SeededRooms == {"beginnerArea", "advancedLobby"}
\* room ids an administrator passes to CreateRoom later on
CreatableRooms == {"room3"}
AllRooms == SeededRooms \cup CreatableRooms
\* rooms the HTTP requests of a run are addressed to
RequestRooms == {"beginnerArea", "room3"}
\* language names a client may post
LanguageNames == {"go", "cobol"}
\* posted code, by what the Code Builder makes of it
Codes == {"valid", "unparsable"}
\* executor.Result.Error of a Result without Success: nil (the zero Result of
\* a full job queue), the three CodeErr values, or the error of a failed copy
\* into the container.
JobErrors == {"nil", "CompileError", "RunTimeError", "FailTestCase", "other"}

\* executor.Result as ExecuteJob hands it back, by Success and Error: the
\* Result of a job whose test cases all passed, the zero Result of a job the
\* full job queue rejected, and the failures.
JobResults ==
    {[Success |-> TRUE, Error |-> "nil"]}
    \cup {[Success |-> FALSE, Error |-> e] : e \in JobErrors}

VARIABLES
    hubUp,        \* NewEventHub has returned
    Rooms,        \* EventHub.Rooms: the registered room ids
    loops,        \* loops[r]: goroutines running RoomHub.Start on r's Events
    Events,       \* Events[r]: content of the room's buffered channel
    pc,           \* pc[r][i]: where loop i of room r stands
    cur,          \* cur[r][i]: the event loop i of room r is handling
    Listerners,   \* Listerners[r][p]: connection registered under p, 0 if none
    conns,        \* the SSE connections opened so far, by connection id
    leftPending,  \* connections whose PlayerLeft goroutine has not sent yet
    dispatches,   \* dispatch goroutines that have not snapshotted listeners
    sends,        \* per-listener goroutines that have not tried their send
    GuildUpdateChan, \* content of the cross-room notification channel
    roomPlayers,  \* store: room_players rows, roomPlayers[r][p]
    submissions,  \* store: submissions rows, by id
    clock,        \* store: now(), one tick per insert
    nextEid,      \* nextEid[r]: ids of the events accepted into r's queue
    nSse,         \* nSse[r]: SseEvents the loops of r have produced so far
    nSubmits,     \* submissions posted so far
    nFailures,    \* store calls that have returned an error so far
    begun,        \* history: begun[r], id of the event a loop of r took last
    dispatched,   \* history: dispatched[r], SseEvents of r's latest handler run
    submitDone,   \* history: the processSolutionSubmitted call that ended last
    resultLog,    \* history: the latest Accepted result, the score around it
    best,         \* history: best[r][p], highest score row (r,p) ever held
    jobLog,       \* history: jobLog[r][i], the Result loop i of r is re-enqueuing
    jobs,         \* worker pool: content of the buffered channel w.jobs
    calls,        \* worker pool: the ExecuteJob calls made so far, by job id
    workers,      \* worker pool: workers[w], where worker w stands and with what
    containers,   \* container manager: containers[c], "Idle" or "Busy"
    crashed,      \* a panic has left a goroutine unrecovered
    shutdown,     \* worker pool: w.jobs closed, w.shutdownChan signalled
    response,     \* the latest answer of SubmitSolutionInRoomHandler
    deleted,      \* history: deleted[r], a loop of r has handled RoomDeleted
    EventListeners, \* EventHub.EventListeners[eventID]: the clients registered
    guildSends,   \* goroutines of dispatchEventToEvent that have not sent yet
    guildReceived, \* guildReceived[c]: the latest notification client c took
    guildLog,     \* history: the latest event id EventHub.Start consumed
    builds,       \* Code Builder: one input of Build and what its calls returned
    written,      \* response.JSON: one call of it and the body it wrote
    direct,       \* SubmitSolutionHandler: the request it is serving
    run           \* WorkerPool.executeJob: one job and what running it did

vars == <<hubUp, Rooms, loops, Events, pc, cur, Listerners, conns, leftPending,
          dispatches, sends, GuildUpdateChan, roomPlayers, submissions, clock,
          nextEid, nSse, nSubmits, nFailures, begun, dispatched, submitDone,
          resultLog, best, jobLog, jobs, calls, workers, containers, crashed,
          shutdown, response, deleted, EventListeners, guildSends,
          guildReceived, guildLog, builds, written, direct, run>>

hubVars   == <<hubUp, Rooms, loops>>
connVars  == <<Listerners, conns, leftPending>>
goVars    == <<dispatches, sends, nSse>>
storeVars == <<roomPlayers, submissions, clock, nFailures>>
histVars  == <<begun, dispatched, submitDone, resultLog, best>>
poolVars  == <<jobs, calls, workers, containers, crashed, shutdown>>
guildVars == <<EventListeners, guildSends, guildReceived, guildLog>>
pureVars  == <<builds, written, direct, run>>

(* ------------------------------ helpers --------------------------------- *)
LoopIds == 1..2

NoEvent == [kind |-> "none", player |-> "-", eid |-> 0, lang |-> "-",
            code |-> "-", src |-> 0, sub |-> 0, status |-> "-", score |-> 0]

NoRow == [present |-> FALSE, score |-> 0, place |-> 0, joined |-> 0]

\* events.PlayerJoined / events.PlayerLeft as they sit in the queue
PlayerEvent(kind, p, eid) ==
    [NoEvent EXCEPT !.kind = kind, !.player = p, !.eid = eid]

\* events.SolutionSubmitted as the submit handler builds it
SolutionSubmitted(p, lang, code, eid) ==
    [NoEvent EXCEPT !.kind = "Submitted", !.player = p, !.eid = eid,
                    !.lang = lang, !.code = code]

\* no processSolutionSubmitted call has ended yet
NoCall == [room |-> "-", eid |-> 0, results |-> 0]

\* no Accepted result has been handled yet
NoResult == [room |-> "-", src |-> 0, player |-> "-", score |-> 0,
             had |-> FALSE, before |-> 0, after |-> 0]

\* no loop is between ExecuteJob's return and its re-enqueue
NoJob == [Success |-> FALSE, Error |-> "-"]

\* the worker goroutines NewWorkerPool starts and the containers
\* NewDockerContainerManager(opts.MaxWorkers, ...) is asked for
Workers == 1..MaxWorkers
Containers == 1..MaxWorkers

\* a worker waiting in its select, holding nothing
NoWork == [pc |-> "select", job |-> 0, container |-> 0, marked |-> FALSE,
           panicking |-> FALSE]

SeqToSet(s) == {s[k] : k \in DOMAIN s}

\* no in-room submission answered yet; afterwards the room asked for and the
\* HTTP status written
NoResponse == [room |-> "-", status |-> "-"]

\* the event ids rooms belong to and guild listeners register under, and the
\* clients that listen for guild leaderboards
EventIds == {"supabaseEvent", "otherEvent"}
Clients == {"g1", "g2"}

\* Build has not been called: no input, no output
NoBuild == [lang |-> "-", driver |-> <<>>, user |-> <<>>, outs |-> <<>>]

\* EventHub.Start has consumed nothing yet; afterwards the event id it took,
\* whether GetGuildLeaderboardByEvent succeeded, and the number of the update
NoGuildUpdate == [event |-> "-", ok |-> FALSE, n |-> 0]

\* response.JSON has not been called
NoBody == [sent |-> FALSE, status |-> "-", success |-> FALSE, data |-> "-",
           message |-> "-", error_message |-> "-"]
NoWritten ==
    [params |-> [Status |-> "-", Data |-> "-", Success |-> FALSE, Msg |-> "-",
                 ErrMsg |-> "-"],
     body |-> NoBody]

\* no direct submission is being served
NoDirect == [pc |-> "idle", sub |-> 0, result |-> [Success |-> FALSE, Error |-> "-"],
             status |-> "-", served |-> 0]

\* executeJob has no job
NoRun == [job |-> [step |-> "-", cases |-> <<>>], verdicts |-> <<>>,
          ran |-> <<>>, done |-> FALSE]

\* the helpers outside the hub at rest
PureIdle == written = NoWritten /\ direct = NoDirect /\ run = NoRun

(* ------------------------------- Init ----------------------------------- *)
InitProgram ==
    /\ hubUp = FALSE
    /\ Rooms = {}
    /\ loops = [r \in AllRooms |-> 0]
    /\ Events = [r \in AllRooms |-> <<>>]
    /\ pc = [r \in AllRooms |-> [i \in LoopIds |-> "idle"]]
    /\ cur = [r \in AllRooms |-> [i \in LoopIds |-> NoEvent]]
    /\ Listerners = [r \in AllRooms |-> [p \in Players |-> 0]]
    /\ conns = <<>>
    /\ leftPending = {}
    /\ dispatches = {}
    /\ sends = {}
    /\ GuildUpdateChan = <<>>
    /\ roomPlayers = [r \in AllRooms |-> [p \in Players |-> NoRow]]
    /\ submissions = <<>>
    /\ clock = 0
    /\ nextEid = [r \in AllRooms |-> 1]
    /\ nSubmits = 0
    /\ nFailures = 0
    /\ nSse = [r \in AllRooms |-> 0]
    /\ begun = [r \in AllRooms |-> 0]
    /\ dispatched = [r \in AllRooms |-> <<>>]
    /\ submitDone = NoCall
    /\ resultLog = NoResult
    /\ best = [r \in AllRooms |-> [p \in Players |-> 0]]
    /\ jobLog = [r \in AllRooms |-> [i \in LoopIds |-> NoJob]]
    /\ jobs = <<>>
    /\ calls = <<>>
    /\ workers = [w \in Workers |-> NoWork]
    /\ containers = [c \in Containers |-> "Idle"]
    /\ crashed = FALSE
    /\ shutdown = [closed |-> FALSE, signalled |-> FALSE]
    /\ response = NoResponse
    /\ deleted = [r \in AllRooms |-> FALSE]
    /\ EventListeners = [ev \in EventIds |-> {}]
    /\ guildSends = {}
    /\ guildReceived = [c \in Clients |-> 0]
    /\ guildLog = NoGuildUpdate

\* the state after construction; Build has not been called
Init == InitProgram /\ builds = NoBuild /\ PureIdle

(* ----------------------------- Event Hub -------------------------------- *)
\* NewEventHub: CreateRoom for the two seeded rooms (each call starts the
\* room's loop), then "for _, r := range e.Rooms { go r.Start() }" starts a
\* loop on every registered room once more.
NewEventHub ==
    /\ ~hubUp
    /\ hubUp' = TRUE
    /\ Rooms' = SeededRooms
    /\ loops' = [r \in AllRooms |-> IF r \in SeededRooms THEN 1 + 1 ELSE loops[r]]
    /\ UNCHANGED <<poolVars, guildVars, pureVars, response, deleted, jobLog, Events, pc, cur, connVars, goVars, GuildUpdateChan,
                   storeVars, nextEid, nSubmits, histVars>>

\* EventHub.CreateRoom for a room id not registered yet: newRoomHub, register
\* under e.Mu, go r.Start().
CreateRoom(r) ==
    /\ hubUp
    /\ r \notin Rooms
    /\ Rooms' = Rooms \cup {r}
    /\ loops' = [loops EXCEPT ![r] = 1]
    /\ UNCHANGED <<poolVars, guildVars, pureVars, response, deleted, jobLog, hubUp, Events, pc, cur, connVars, goVars, GuildUpdateChan,
                   storeVars, nextEid, nSubmits, histVars>>

(* ------------------------------- store ---------------------------------- *)
\* rp is one room's slice of room_players, a function of the user id.

\* RANK() OVER (ORDER BY score DESC, joined_at ASC): one more than the number
\* of rows that sort strictly before p's.
Rank(rp, p) ==
    1 + Cardinality({q \in Players :
            /\ rp[q].present
            /\ \/ rp[q].score > rp[p].score
               \/ rp[q].score = rp[p].score /\ rp[q].joined < rp[p].joined})

\* UPDATE room_players SET place = new_place ... WHERE room_id = $1
CalculateRoomLeaderboard(rp) ==
    [p \in Players |->
        IF rp[p].present THEN [rp[p] EXCEPT !.place = Rank(rp, p)] ELSE rp[p]]

\* addPlayerToRoom: the insert names room, user and username only, so score
\* takes its default 0, place stays NULL (0 here) and joined_at is now().
CreateRoomPlayer(rp, p, now) ==
    [rp EXCEPT ![p] = [present |-> TRUE, score |-> 0, place |-> 0,
                       joined |-> now]]

\* DELETE FROM room_players WHERE room_id = $1 AND user_id = $2
DeleteRoomPlayer(rp, p) == [rp EXCEPT ![p] = NoRow]

\* AddRoomPlayerScore: score = score + points on the row of (room, user); a
\* user without a row is left without one.
AddRoomPlayerScore(rp, p, points) ==
    IF rp[p].present THEN [rp EXCEPT ![p].score = @ + points] ELSE rp

\* getRoomLeaderboardEntries: one entry (score, place) per row of the room.
getRoomLeaderboardEntries(rp) ==
    {[player |-> p, score |-> rp[p].score, place |-> rp[p].place] :
        p \in {q \in Players : rp[q].present}}

\* UPDATE submissions SET status = $2 WHERE id = $1
UpdateSubmissionStatus(subs, id, status) ==
    [subs EXCEPT ![id].status = status, ![id].updates = @ + 1]

\* INSERT INTO submissions (...) with Status: store.SubmissionStatusPending
CreateSubmission(subs, p, r) ==
    Append(subs, [status |-> "pending", updates |-> 0, player |-> p,
                  room |-> r])

(* ------------------------- language, verdicts --------------------------- *)
\* executor.NormalizeLanguage: case-insensitive alias table; unknown names
\* are not found ("" here).
NormalizeLanguage(name) ==
    CASE name \in {"go", "golang"} -> "Golang"
      [] name \in {"py", "python", "python3"} -> "Python"
      [] name \in {"js", "node", "javascript"} -> "Javascript"
      [] OTHER -> ""

\* generateSolutionResult: Accepted with Score 50 unless the job's Error is
\* one of the three CodeErr values.
generateSolutionResult(submitted, jobError) ==
    [submitted EXCEPT
        !.kind = "Result",
        !.src = submitted.eid,
        !.score = AcceptedScore,
        !.status = CASE jobError = "CompileError" -> "CompilationError"
                     [] jobError = "RunTimeError" -> "RuntimeError"
                     [] jobError = "FailTestCase" -> "WrongAnswer"
                     [] OTHER -> "Accepted"]

(* ---------------------------- SSE dispatch ------------------------------ *)
\* An SseEvent of room r caused by the queue event src, for one player or
\* for "all"; seq is its position among the SseEvents r's loops produce.
SseEvent(type, r, src, to, data) ==
    [type |-> type, room |-> r, src |-> src, to |-> to, data |-> data,
     seq |-> 0]

Goroutines == Cardinality(dispatches) + Cardinality(sends)

Numbered(r, evs) ==
    [k \in 1..Len(evs) |-> [evs[k] EXCEPT !.seq = nSse[r] + k]]

\* "go r.dispatchEvent(e)" / "go r.dispatchEventToPlayer(e, id)" for each event
\* of evs, in order: the goroutines are started, nothing has been sent yet.
GoDispatch(r, evs) ==
    /\ Goroutines + Len(evs) <= MaxGoroutines
    /\ nSse' = [nSse EXCEPT ![r] = @ + Len(evs)]
    /\ dispatches' = dispatches \cup SeqToSet(Numbered(r, evs))
    /\ dispatched' = [dispatched EXCEPT ![r] = Numbered(r, evs)]
    /\ UNCHANGED sends

\* dispatchEventToPlayer offering its event to every listener of the room
dispatchEventToAll(e) ==
    /\ e \in dispatches
    /\ LET targets == {Listerners[e.room][p] : p \in Players} \ {0}
       IN  /\ Goroutines - 1 + Cardinality(targets) <= MaxGoroutines
           /\ sends' = sends \cup {[conn |-> c, ev |-> e] : c \in targets}
    /\ dispatches' = dispatches \ {e}
    /\ UNCHANGED <<poolVars, guildVars, pureVars, response, deleted, jobLog, hubVars, Events, pc, cur, connVars, nSse,
                   GuildUpdateChan, storeVars, nextEid, nSubmits, histVars>>

\* dispatchEvent sending to the listeners itself with plain channel sends: it
\* gets through only when every listener takes the event.
dispatchEventBlocking(e) ==
    /\ e \in dispatches
    /\ LET targets == IF e.to = "all"
                      THEN {Listerners[e.room][p] : p \in Players} \ {0}
                      ELSE {Listerners[e.room][e.to]} \ {0}
       IN  /\ \A c \in targets : conns[c].st = "select"
           /\ conns' = [c \in DOMAIN conns |->
                 IF c \in targets
                 THEN [conns[c] EXCEPT !.prev = conns[c].last,
                                       !.last = e.seq, !.st = "writing"]
                 ELSE conns[c]]
    /\ dispatches' = dispatches \ {e}
    /\ UNCHANGED <<poolVars, guildVars, pureVars, response, deleted, jobLog, hubVars, Events, pc, cur, Listerners,
                   leftPending, sends, nSse, GuildUpdateChan, storeVars,
                   nextEid, nSubmits, histVars>>

\* dispatchEvent / dispatchEventToPlayer once scheduled: copy the listeners
\* under the read lock and start one sender goroutine per listener.
dispatchEvent(e) ==
    /\ e \in dispatches
    /\ LET targets == IF e.to = "all"
                      THEN {Listerners[e.room][p] : p \in Players} \ {0}
                      ELSE {Listerners[e.room][e.to]} \ {0}
       IN  /\ Goroutines - 1 + Cardinality(targets) <= MaxGoroutines
           /\ sends' = sends \cup {[conn |-> c, ev |-> e] : c \in targets}
    /\ dispatches' = dispatches \ {e}
    /\ UNCHANGED <<poolVars, guildVars, pureVars, response, deleted, jobLog, hubVars, Events, pc, cur, connVars, nSse, GuildUpdateChan,
                   storeVars, nextEid, nSubmits, histVars>>

\* select { case l <- e: default: } on the unbuffered channel of a connection:
\* the event is handed over only if the handler sits in its select; a handler
\* that is busy, or has closed the channel (the panic is recovered), misses it.
\* Of what a connection has received, last and prev are the seq of the latest
\* event and of the one before it.
trySend(s) ==
    /\ s \in sends
    /\ sends' = sends \ {s}
    /\ conns' = IF conns[s.conn].st = "select"
                THEN [conns EXCEPT ![s.conn].prev = conns[s.conn].last,
                                   ![s.conn].last = s.ev.seq,
                                   ![s.conn].st = "writing"]
                ELSE conns
    /\ UNCHANGED <<poolVars, guildVars, pureVars, response, deleted, jobLog, hubVars, Events, pc, cur, Listerners, leftPending,
                   dispatches, nSse, GuildUpdateChan, storeVars, nextEid,
                   nSubmits, histVars>>

\* RoomHub.EventID: the seeded rooms belong to the event NewEventHub names,
\* a room made by CreateRoom to the event its caller names.
EventID(r) == IF r \in SeededRooms THEN "supabaseEvent" ELSE "otherEvent"

\* A client starts listening for the guild leaderboard of an event: its
\* channel is stored in EventListeners[eventID].
RegisterEventListener(ev, c) ==
    /\ hubUp
    /\ c \notin EventListeners[ev]
    /\ EventListeners' = [EventListeners EXCEPT ![ev] = @ \cup {c}]
    /\ UNCHANGED <<poolVars, pureVars, response, deleted, jobLog, hubVars, Events,
                   pc, cur, connVars, goVars, GuildUpdateChan, storeVars,
                   nextEid, nSubmits, histVars, guildSends, guildReceived,
                   guildLog>>

\* "select { case r.guildUpdateChan <- r.EventID: default: }" of a room loop,
\* taken by itself.
NotifyGuild(r) ==
    /\ r \in Rooms
    /\ GuildUpdateChan' = IF Len(GuildUpdateChan) < GuildUpdateCap
                          THEN Append(GuildUpdateChan, EventID(r))
                          ELSE GuildUpdateChan
    /\ UNCHANGED <<poolVars, guildVars, pureVars, response, deleted, jobLog,
                   hubVars, Events, pc, cur, connVars, goVars, storeVars,
                   nextEid, nSubmits, histVars>>

\* EventHub.Start offering the leaderboard to the listeners of every event
EventHubStartToAll(ok) ==
    /\ hubUp
    /\ GuildUpdateChan # <<>>
    /\ GuildUpdateChan' = Tail(GuildUpdateChan)
    /\ guildLog' = [event |-> Head(GuildUpdateChan), ok |-> ok,
                    n |-> guildLog.n + 1]
    /\ guildSends' =
          IF ok
          THEN guildSends \cup
               {[client |-> c, event |-> Head(GuildUpdateChan),
                 n |-> guildLog.n + 1] :
                   c \in UNION {EventListeners[ev] : ev \in EventIds}}
          ELSE guildSends
    /\ UNCHANGED <<poolVars, pureVars, response, deleted, jobLog, hubVars, Events,
                   pc, cur, connVars, goVars, storeVars, nextEid, nSubmits,
                   histVars, EventListeners, guildReceived>>

\* EventHub.Start, one turn of its range loop: take an event id off
\* GuildUpdateChan and call GetGuildLeaderboardByEvent; on an error log and
\* go on, otherwise dispatchEventToEvent starts one goroutine per listener
\* registered under that event id.
EventHubStart(ok) ==
    /\ hubUp
    /\ GuildUpdateChan # <<>>
    /\ GuildUpdateChan' = Tail(GuildUpdateChan)
    /\ guildLog' = [event |-> Head(GuildUpdateChan), ok |-> ok,
                    n |-> guildLog.n + 1]
    /\ guildSends' =
          IF ok
          THEN guildSends \cup
               {[client |-> c, event |-> Head(GuildUpdateChan),
                 n |-> guildLog.n + 1] :
                   c \in EventListeners[Head(GuildUpdateChan)]}
          ELSE guildSends
    /\ UNCHANGED <<poolVars, pureVars, response, deleted, jobLog, hubVars, Events,
                   pc, cur, connVars, goVars, storeVars, nextEid, nSubmits,
                   histVars, EventListeners, guildReceived>>

\* A goroutine of dispatchEventToEvent: "select { case l <- sseEvent:
\* default: }"; the client has the event if it was receiving.
guildTrySend(s, receiving) ==
    /\ s \in guildSends
    /\ guildSends' = guildSends \ {s}
    /\ guildReceived' = IF receiving
                        THEN [guildReceived EXCEPT ![s.client] = s.n]
                        ELSE guildReceived
    /\ UNCHANGED <<poolVars, pureVars, response, deleted, jobLog, hubVars, Events,
                   pc, cur, connVars, goVars, GuildUpdateChan, storeVars,
                   nextEid, nSubmits, histVars, EventListeners, guildLog>>

(* --------------------------- HTTP handlers ------------------------------ *)
\* JoinRoomHandler up to its blocking send: GetRoomById must find the room;
\* a fresh unbuffered channel is stored under the player's id (replacing
\* whatever was registered there).
JoinRoomHandler(p, r) ==
    /\ r \in Rooms
    /\ conns' = Append(conns, [room |-> r, player |-> p, st |-> "joining",
                               prev |-> 0, last |-> 0])
    /\ Listerners' = [Listerners EXCEPT ![r][p] = Len(conns) + 1]
    /\ UNCHANGED <<poolVars, guildVars, pureVars, response, deleted, jobLog, hubVars, Events, pc, cur, leftPending, goVars,
                   GuildUpdateChan, storeVars, nextEid, nSubmits, histVars>>

\* "roomHub.Events <- events.PlayerJoined{...}": a blocking send, made by the
\* handler itself before it enters its read loop.
SendPlayerJoined(c) ==
    /\ conns[c].st = "joining"
    /\ LET r == conns[c].room
       IN  /\ Len(Events[r]) < EventsCap
           /\ Events' = [Events EXCEPT ![r] =
                 Append(@, PlayerEvent("Joined", conns[c].player, nextEid[r]))]
           /\ nextEid' = [nextEid EXCEPT ![r] = @ + 1]
    /\ conns' = [conns EXCEPT ![c].st = "select"]
    /\ UNCHANGED <<poolVars, guildVars, pureVars, response, deleted, jobLog, hubVars, pc, cur, Listerners, leftPending, goVars,
                   GuildUpdateChan, storeVars, nSubmits, histVars>>

\* The read loop after one receive: marshal, write, flush, back to select.
WriteSseEvent(c) ==
    /\ conns[c].st = "writing"
    /\ conns' = [conns EXCEPT ![c].st = "select"]
    /\ UNCHANGED <<poolVars, guildVars, pureVars, response, deleted, jobLog, hubVars, Events, pc, cur, Listerners, leftPending, goVars,
                   GuildUpdateChan, storeVars, nextEid, nSubmits, histVars>>

\* r.Context().Done() in the select: the deferred calls run last-in first-out:
\* delete(roomHub.Listerners, playerID) and "go func() { Events <- PlayerLeft }",
\* then close(listen).
ClientDisconnects(c) ==
    /\ conns[c].st = "select"
    /\ Listerners' = [Listerners EXCEPT ![conns[c].room][conns[c].player] = 0]
    /\ leftPending' = leftPending \cup {c}
    /\ conns' = [conns EXCEPT ![c].st = "closed"]
    /\ UNCHANGED <<poolVars, guildVars, pureVars, response, deleted, jobLog, hubVars, Events, pc, cur, goVars, GuildUpdateChan,
                   storeVars, nextEid, nSubmits, histVars>>

\* The goroutine of the deferred function: a blocking send of PlayerLeft.
SendPlayerLeft(c) ==
    /\ c \in leftPending
    /\ LET r == conns[c].room
       IN  /\ Len(Events[r]) < EventsCap
           /\ Events' = [Events EXCEPT ![r] =
                 Append(@, PlayerEvent("Left", conns[c].player, nextEid[r]))]
           /\ nextEid' = [nextEid EXCEPT ![r] = @ + 1]
    /\ leftPending' = leftPending \ {c}
    /\ UNCHANGED <<poolVars, guildVars, pureVars, response, deleted, jobLog, hubVars, pc, cur, Listerners, conns, goVars,
                   GuildUpdateChan, storeVars, nSubmits, histVars>>

\* SubmitSolutionInRoomHandler answering 202 whatever its select did
SubmitSolutionInRoomHandlerSays202(p, r, lang, code) ==
    /\ r \in Rooms
    /\ nSubmits' = nSubmits + 1
    /\ response' = [room |-> r, status |-> "202 Accepted"]
    /\ IF Len(Events[r]) < EventsCap
       THEN /\ Events' = [Events EXCEPT ![r] =
                     Append(@, SolutionSubmitted(p, lang, code, nextEid[r]))]
            /\ nextEid' = [nextEid EXCEPT ![r] = @ + 1]
       ELSE UNCHANGED <<Events, nextEid>>
    /\ UNCHANGED <<poolVars, guildVars, pureVars, deleted, jobLog, hubVars, pc, cur,
                   connVars, goVars, GuildUpdateChan, storeVars, histVars>>

\* SubmitSolutionInRoomHandler: select { case Events <- ev: 202; default: 503 }.
SubmitSolutionInRoomHandler(p, r, lang, code) ==
    /\ r \in Rooms
    /\ nSubmits' = nSubmits + 1
    /\ IF Len(Events[r]) < EventsCap
       THEN /\ Events' = [Events EXCEPT ![r] =
                     Append(@, SolutionSubmitted(p, lang, code, nextEid[r]))]
            /\ nextEid' = [nextEid EXCEPT ![r] = @ + 1]
            /\ response' = [room |-> r, status |-> "202 Accepted"]
       ELSE /\ response' = [room |-> r, status |-> "503 Service Unavailable"]
            /\ UNCHANGED <<Events, nextEid>>
    /\ UNCHANGED <<poolVars, guildVars, pureVars, deleted, jobLog, hubVars, pc, cur,
                   connVars, goVars, GuildUpdateChan, storeVars, histVars>>

(* ----------------------------- room loop ------------------------------- *)
MaxOf(a, b) == IF a >= b THEN a ELSE b

Best(b, rp) == [p \in Players |-> MaxOf(b[p], rp[p].score)]

\* RoomHub.Start: "for event := range r.Events" on loop i of room r takes the
\* head of the queue and switches on its type.
Start(r, i, kind) ==
    /\ i \in 1..loops[r]
    /\ pc[r][i] = "idle"
    /\ Events[r] # <<>>
    /\ Head(Events[r]).kind = kind
    /\ Events' = [Events EXCEPT ![r] = Tail(@)]
    /\ begun' = [begun EXCEPT ![r] = Head(Events[r]).eid]

\* The store calls of a handler run that return an error are its input
\* faults; only a call the run really makes can fail.
Failing(faults, made) ==
    /\ faults \subseteq made
    /\ nFailures' = nFailures + Cardinality(faults)

JoinedCalls == {"GetRoomPlayer", "CreateRoomPlayer",
                "CalculateRoomLeaderboard", "GetRoomPlayers"}

\* processPlayerJoined over a room_players table without its primary key: the
\* insert of a user who has a row replaces the row.
processPlayerJoinedNoKey(r, i, faults) ==
    /\ Start(r, i, "Joined")
    /\ LET ev == Head(Events[r])
           p  == ev.player
           rp == roomPlayers[r]
           \* playerInRoom: any error of GetRoomPlayer, no row included, is "no"
           inRoom   == rp[p].present /\ "GetRoomPlayer" \notin faults
           inserted == ~inRoom /\ "CreateRoomPlayer" \notin faults
           failed   == ~inRoom /\ ~inserted
           rp1 == IF inserted THEN CreateRoomPlayer(rp, p, clock + 1) ELSE rp
           rp2 == IF "CalculateRoomLeaderboard" \in faults THEN rp1
                  ELSE CalculateRoomLeaderboard(rp1)
           joined == SseEvent("PLAYER_JOINED", r, ev.eid, "all", {})
           board  == SseEvent("LEADERBOARD_UPDATED", r, ev.eid, "all",
                              getRoomLeaderboardEntries(rp2))
       IN  /\ Failing(faults,
                 {"GetRoomPlayer"}
                 \cup (IF inRoom THEN {} ELSE {"CreateRoomPlayer"})
                 \cup (IF failed THEN {}
                       ELSE {"CalculateRoomLeaderboard", "GetRoomPlayers"}))
           /\ roomPlayers' = IF failed THEN roomPlayers
                             ELSE [roomPlayers EXCEPT ![r] = rp2]
           /\ clock' = IF inserted THEN clock + 1 ELSE clock
           /\ GoDispatch(r, IF failed THEN <<>>
                            ELSE IF "GetRoomPlayers" \in faults THEN <<joined>>
                            ELSE <<joined, board>>)
    /\ best' = [best EXCEPT ![r] = Best(@, roomPlayers'[r])]
    /\ UNCHANGED <<poolVars, guildVars, pureVars, response, deleted, jobLog, hubVars, pc, cur, connVars, GuildUpdateChan, submissions,
                   nextEid, nSubmits, submitDone, resultLog>>

\* processPlayerJoined, as one step of the loop.
processPlayerJoined(r, i, faults) ==
    /\ Start(r, i, "Joined")
    /\ LET ev == Head(Events[r])
           p  == ev.player
           rp == roomPlayers[r]
           \* playerInRoom: any error of GetRoomPlayer, no row included, is "no"
           inRoom   == rp[p].present /\ "GetRoomPlayer" \notin faults
           \* room_players_pkey (room_id, user_id): the insert of a second row fails
           inserted == ~inRoom /\ ~rp[p].present /\ "CreateRoomPlayer" \notin faults
           failed   == ~inRoom /\ ~inserted
           rp1 == IF inserted THEN CreateRoomPlayer(rp, p, clock + 1) ELSE rp
           rp2 == IF "CalculateRoomLeaderboard" \in faults THEN rp1
                  ELSE CalculateRoomLeaderboard(rp1)
           joined == SseEvent("PLAYER_JOINED", r, ev.eid, "all", {})
           board  == SseEvent("LEADERBOARD_UPDATED", r, ev.eid, "all",
                              getRoomLeaderboardEntries(rp2))
       IN  /\ Failing(faults,
                 {"GetRoomPlayer"}
                 \cup (IF inRoom THEN {} ELSE {"CreateRoomPlayer"})
                 \cup (IF failed THEN {}
                       ELSE {"CalculateRoomLeaderboard", "GetRoomPlayers"}))
           /\ roomPlayers' = IF failed THEN roomPlayers
                             ELSE [roomPlayers EXCEPT ![r] = rp2]
           /\ clock' = IF inserted THEN clock + 1 ELSE clock
           /\ GoDispatch(r, IF failed THEN <<>>
                            ELSE IF "GetRoomPlayers" \in faults THEN <<joined>>
                            ELSE <<joined, board>>)
    /\ best' = [best EXCEPT ![r] = Best(@, roomPlayers'[r])]
    /\ UNCHANGED <<poolVars, guildVars, pureVars, response, deleted, jobLog, hubVars, pc, cur, connVars, GuildUpdateChan, submissions,
                   nextEid, nSubmits, submitDone, resultLog>>

LeftCalls == {"DeleteRoomPlayer", "CalculateRoomLeaderboard", "GetRoomPlayers"}

\* processPlayerLeft, as one step of the loop: no failure ends it early.
processPlayerLeft(r, i, faults) ==
    /\ Start(r, i, "Left")
    /\ LET ev == Head(Events[r])
           rp == roomPlayers[r]
           rp1 == IF "DeleteRoomPlayer" \in faults THEN rp
                  ELSE DeleteRoomPlayer(rp, ev.player)
           rp2 == IF "CalculateRoomLeaderboard" \in faults THEN rp1
                  ELSE CalculateRoomLeaderboard(rp1)
           left  == SseEvent("PLAYER_LEFT", r, ev.eid, "all", {})
           board == SseEvent("LEADERBOARD_UPDATED", r, ev.eid, "all",
                             IF "GetRoomPlayers" \in faults THEN {}
                             ELSE getRoomLeaderboardEntries(rp2))
       IN  /\ Failing(faults, LeftCalls)
           /\ roomPlayers' = [roomPlayers EXCEPT ![r] = rp2]
           /\ GoDispatch(r, <<left, board>>)
    /\ best' = [best EXCEPT ![r] = Best(@, roomPlayers'[r])]
    /\ UNCHANGED <<poolVars, guildVars, pureVars, response, deleted, jobLog, hubVars, pc, cur, connVars, GuildUpdateChan, submissions,
                   clock, nextEid, nSubmits, submitDone, resultLog>>

\* A caller puts events.RoomDeleted into the room's queue (once per room).
SendRoomDeleted(r) ==
    /\ r \in Rooms
    /\ ~deleted[r]
    /\ \A k \in DOMAIN Events[r] : Events[r][k].kind # "Deleted"
    /\ \A j \in LoopIds : cur[r][j].kind # "Deleted"
    /\ Len(Events[r]) < EventsCap
    /\ Events' = [Events EXCEPT ![r] =
          Append(@, [NoEvent EXCEPT !.kind = "Deleted", !.eid = nextEid[r]])]
    /\ nextEid' = [nextEid EXCEPT ![r] = @ + 1]
    /\ UNCHANGED <<poolVars, guildVars, pureVars, response, deleted, jobLog, hubVars, pc,
                   cur, connVars, goVars, GuildUpdateChan, storeVars, nSubmits,
                   histVars>>

\* processRoomDeleted, as one step of the loop: DeleteRoom (an error is only
\* logged), then "go r.dispatchEvent(ROOM_DELETED)"; the Events channel, the
\* hub's Rooms map and the loop are left as they are.
processRoomDeleted(r, i) ==
    /\ Start(r, i, "Deleted")
    /\ deleted' = [deleted EXCEPT ![r] = TRUE]
    /\ GoDispatch(r, <<SseEvent("ROOM_DELETED", r, Head(Events[r]).eid,
                                "all", {})>>)
    /\ UNCHANGED <<poolVars, guildVars, pureVars, response, jobLog, hubVars, pc, cur,
                   connVars, GuildUpdateChan, storeVars, nextEid, nSubmits,
                   submitDone, resultLog, best>>

\* A handler called by RoomHub.Start panics while it handles the event the
\* loop has just taken: neither Start nor the handlers recover, so the panic
\* unwinds the loop's goroutine and ends the process.
HandlerPanics(r, i) ==
    /\ \E kind \in {"Joined", "Left", "Submitted", "Result", "Deleted"} :
          Start(r, i, kind)
    /\ pc' = [pc EXCEPT ![r][i] = "panicked"]
    /\ crashed' = TRUE
    /\ UNCHANGED <<jobs, calls, workers, containers, shutdown, guildVars, pureVars,
                   response, deleted, jobLog, hubVars, cur, connVars, goVars,
                   GuildUpdateChan, storeVars, nextEid, nSubmits, dispatched,
                   submitDone, resultLog, best>>

SubmittedCalls == {"GetLanguageByName", "CreateSubmission",
                   "GetCodeProblemLanguageDetail", "GetTestCasesByProblem"}

\* processSolutionSubmitted up to the call of ExecuteJob: every failure before
\* it returns the error to Start, which logs it.
processSolutionSubmitted(r, i, faults) ==
    /\ Start(r, i, "Submitted")
    /\ LET ev == Head(Events[r])
           found   == NormalizeLanguage(ev.lang) # ""
           lang    == found /\ "GetLanguageByName" \notin faults
           created == lang /\ "CreateSubmission" \notin faults
           problem == created /\ "GetCodeProblemLanguageDetail" \notin faults
           cases   == problem /\ "GetTestCasesByProblem" \notin faults
           built   == cases /\ ev.code = "valid"
       IN  /\ Failing(faults,
                 (IF found THEN {"GetLanguageByName"} ELSE {})
                 \cup (IF lang THEN {"CreateSubmission"} ELSE {})
                 \cup (IF created THEN {"GetCodeProblemLanguageDetail"} ELSE {})
                 \cup (IF problem THEN {"GetTestCasesByProblem"} ELSE {}))
           /\ submissions' = IF created
                             THEN CreateSubmission(submissions, ev.player, r)
                             ELSE submissions
           /\ IF built
              THEN /\ pc' = [pc EXCEPT ![r][i] = "ExecuteJob"]
                   /\ cur' = [cur EXCEPT ![r][i] =
                                 [ev EXCEPT !.sub = Len(submissions) + 1]]
                   /\ UNCHANGED submitDone
              ELSE /\ submitDone' = [room |-> r, eid |-> ev.eid, results |-> 0]
                   /\ UNCHANGED <<pc, cur>>
    /\ UNCHANGED <<poolVars, guildVars, pureVars, response, deleted, jobLog, hubVars, connVars, goVars, GuildUpdateChan, roomPlayers,
                   clock, nextEid, nSubmits, dispatched, resultLog, best>>

\* ExecuteJob returns its Result and generateSolutionResult turns it into the
\* SolutionResult the loop is about to send to itself.
ExecuteJobReturns(r, i, result) ==
    /\ pc[r][i] = "ExecuteJob"
    /\ cur' = [cur EXCEPT ![r][i] = generateSolutionResult(@, result.Error)]
    /\ jobLog' = [jobLog EXCEPT ![r][i] = result]
    /\ pc' = [pc EXCEPT ![r][i] = "send"]
    /\ UNCHANGED <<poolVars, guildVars, pureVars, response, deleted, hubVars, Events, connVars, goVars, GuildUpdateChan,
                   storeVars, nextEid, nSubmits, histVars>>

\* "r.Events <- solutionResult": the loop's blocking send to its own queue,
\* after which processSolutionSubmitted returns nil.
SendSolutionResult(r, i) ==
    /\ pc[r][i] = "send"
    /\ Len(Events[r]) < EventsCap
    /\ Events' = [Events EXCEPT ![r] =
                     Append(@, [cur[r][i] EXCEPT !.eid = nextEid[r]])]
    /\ nextEid' = [nextEid EXCEPT ![r] = @ + 1]
    /\ pc' = [pc EXCEPT ![r][i] = "idle"]
    /\ cur' = [cur EXCEPT ![r][i] = NoEvent]
    /\ submitDone' = [room |-> r, eid |-> cur[r][i].src, results |-> 1]
    /\ jobLog' = [jobLog EXCEPT ![r][i] = NoJob]
    /\ UNCHANGED <<poolVars, guildVars, pureVars, response, deleted, hubVars, connVars, goVars, GuildUpdateChan, storeVars,
                   nSubmits, begun, dispatched, resultLog, best>>

ResultCalls == {"UpdateSubmissionStatus", "AddRoomPlayerScore",
                "CalculateRoomLeaderboard", "GetRoomPlayers"}

\* processSolutionResult notifying the guild channel before it adds the
\* score.
processSolutionResultNotifyFirst(r, i, faults) ==
    /\ Start(r, i, "Result")
    /\ LET ev == Head(Events[r])
           p  == ev.player
           rp == roomPlayers[r]
           updated == "UpdateSubmissionStatus" \notin faults
           added   == "AddRoomPlayerScore" \notin faults
           read    == "GetRoomPlayers" \notin faults
       IN  IF ev.status # "Accepted"
           THEN /\ Failing(faults, {"UpdateSubmissionStatus"})
                /\ submissions' =
                      IF updated
                      THEN UpdateSubmissionStatus(submissions, ev.sub, "wrong_answer")
                      ELSE submissions
                /\ GoDispatch(r, IF updated
                                 THEN <<SseEvent("WRONG_SOLUTION_SUBMITTED", r,
                                                 ev.eid, p, {})>>
                                 ELSE <<>>)
                /\ UNCHANGED <<roomPlayers, GuildUpdateChan, resultLog>>
           ELSE LET rp1 == IF added THEN AddRoomPlayerScore(rp, p, ev.score)
                           ELSE rp
                    rp2 == IF added /\ "CalculateRoomLeaderboard" \notin faults
                           THEN CalculateRoomLeaderboard(rp1) ELSE rp1
                    correct == SseEvent("CORRECT_SOLUTION_SUBMITTED", r,
                                        ev.eid, "all", {})
                    board == SseEvent("LEADERBOARD_UPDATED", r, ev.eid, "all",
                                      getRoomLeaderboardEntries(rp2))
                IN  /\ Failing(faults,
                          {"AddRoomPlayerScore"}
                          \cup (IF added THEN {"CalculateRoomLeaderboard",
                                               "GetRoomPlayers"} ELSE {})
                          \cup (IF added /\ read THEN {"UpdateSubmissionStatus"}
                                ELSE {}))
                    /\ roomPlayers' = [roomPlayers EXCEPT ![r] = rp2]
                    /\ GuildUpdateChan' =
                          IF Len(GuildUpdateChan) < GuildUpdateCap
                          THEN Append(GuildUpdateChan, EventID(r))
                          ELSE GuildUpdateChan
                    /\ GoDispatch(r, IF ~added THEN <<>>
                                     ELSE IF read THEN <<correct, board>>
                                     ELSE <<correct>>)
                    /\ submissions' =
                          IF added /\ read /\ updated
                          THEN UpdateSubmissionStatus(submissions, ev.sub, "accepted")
                          ELSE submissions
                    /\ resultLog' =
                          [room |-> r, src |-> ev.eid, player |-> p,
                           score |-> ev.score, had |-> rp[p].present,
                           before |-> rp[p].score, after |-> rp2[p].score]
    /\ best' = [best EXCEPT ![r] = Best(@, roomPlayers'[r])]
    /\ UNCHANGED <<poolVars, guildVars, pureVars, response, deleted, jobLog, hubVars, pc, cur, connVars, clock, nextEid, nSubmits,
                   submitDone>>

\* processSolutionResult notifying the guild channel with a plain send, which
\* waits while the channel is full.
processSolutionResultPlainSend(r, i, faults) ==
    /\ Start(r, i, "Result")
    /\ LET ev == Head(Events[r])
           p  == ev.player
           rp == roomPlayers[r]
           updated == "UpdateSubmissionStatus" \notin faults
           added   == "AddRoomPlayerScore" \notin faults
           read    == "GetRoomPlayers" \notin faults
       IN  IF ev.status # "Accepted"
           THEN /\ Failing(faults, {"UpdateSubmissionStatus"})
                /\ submissions' =
                      IF updated
                      THEN UpdateSubmissionStatus(submissions, ev.sub, "wrong_answer")
                      ELSE submissions
                /\ GoDispatch(r, IF updated
                                 THEN <<SseEvent("WRONG_SOLUTION_SUBMITTED", r,
                                                 ev.eid, p, {})>>
                                 ELSE <<>>)
                /\ UNCHANGED <<roomPlayers, GuildUpdateChan, resultLog>>
           ELSE LET rp1 == IF added THEN AddRoomPlayerScore(rp, p, ev.score)
                           ELSE rp
                    rp2 == IF added /\ "CalculateRoomLeaderboard" \notin faults
                           THEN CalculateRoomLeaderboard(rp1) ELSE rp1
                    correct == SseEvent("CORRECT_SOLUTION_SUBMITTED", r,
                                        ev.eid, "all", {})
                    board == SseEvent("LEADERBOARD_UPDATED", r, ev.eid, "all",
                                      getRoomLeaderboardEntries(rp2))
                IN  /\ Failing(faults,
                          {"AddRoomPlayerScore"}
                          \cup (IF added THEN {"CalculateRoomLeaderboard",
                                               "GetRoomPlayers"} ELSE {})
                          \cup (IF added /\ read THEN {"UpdateSubmissionStatus"}
                                ELSE {}))
                    /\ roomPlayers' = [roomPlayers EXCEPT ![r] = rp2]
                    /\ added => Len(GuildUpdateChan) < GuildUpdateCap
                    /\ GuildUpdateChan' =
                          IF added THEN Append(GuildUpdateChan, EventID(r))
                          ELSE GuildUpdateChan
                    /\ GoDispatch(r, IF ~added THEN <<>>
                                     ELSE IF read THEN <<correct, board>>
                                     ELSE <<correct>>)
                    /\ submissions' =
                          IF added /\ read /\ updated
                          THEN UpdateSubmissionStatus(submissions, ev.sub, "accepted")
                          ELSE submissions
                    /\ resultLog' =
                          [room |-> r, src |-> ev.eid, player |-> p,
                           score |-> ev.score, had |-> rp[p].present,
                           before |-> rp[p].score, after |-> rp2[p].score]
    /\ best' = [best EXCEPT ![r] = Best(@, roomPlayers'[r])]
    /\ UNCHANGED <<poolVars, guildVars, pureVars, response, deleted, jobLog, hubVars, pc, cur, connVars, clock, nextEid, nSubmits,
                   submitDone>>

\* processSolutionResult, as one step of the loop.
processSolutionResult(r, i, faults) ==
    /\ Start(r, i, "Result")
    /\ LET ev == Head(Events[r])
           p  == ev.player
           rp == roomPlayers[r]
           updated == "UpdateSubmissionStatus" \notin faults
           added   == "AddRoomPlayerScore" \notin faults
           read    == "GetRoomPlayers" \notin faults
       IN  IF ev.status # "Accepted"
           THEN /\ Failing(faults, {"UpdateSubmissionStatus"})
                /\ submissions' =
                      IF updated
                      THEN UpdateSubmissionStatus(submissions, ev.sub, "wrong_answer")
                      ELSE submissions
                /\ GoDispatch(r, IF updated
                                 THEN <<SseEvent("WRONG_SOLUTION_SUBMITTED", r,
                                                 ev.eid, p, {})>>
                                 ELSE <<>>)
                /\ UNCHANGED <<roomPlayers, GuildUpdateChan, resultLog>>
           ELSE LET rp1 == IF added THEN AddRoomPlayerScore(rp, p, ev.score)
                           ELSE rp
                    rp2 == IF added /\ "CalculateRoomLeaderboard" \notin faults
                           THEN CalculateRoomLeaderboard(rp1) ELSE rp1
                    correct == SseEvent("CORRECT_SOLUTION_SUBMITTED", r,
                                        ev.eid, "all", {})
                    board == SseEvent("LEADERBOARD_UPDATED", r, ev.eid, "all",
                                      getRoomLeaderboardEntries(rp2))
                IN  /\ Failing(faults,
                          {"AddRoomPlayerScore"}
                          \cup (IF added THEN {"CalculateRoomLeaderboard",
                                               "GetRoomPlayers"} ELSE {})
                          \cup (IF added /\ read THEN {"UpdateSubmissionStatus"}
                                ELSE {}))
                    /\ roomPlayers' = [roomPlayers EXCEPT ![r] = rp2]
                    /\ GuildUpdateChan' =
                          IF added /\ Len(GuildUpdateChan) < GuildUpdateCap
                          THEN Append(GuildUpdateChan, EventID(r))
                          ELSE GuildUpdateChan
                    /\ GoDispatch(r, IF ~added THEN <<>>
                                     ELSE IF read THEN <<correct, board>>
                                     ELSE <<correct>>)
                    /\ submissions' =
                          IF added /\ read /\ updated
                          THEN UpdateSubmissionStatus(submissions, ev.sub, "accepted")
                          ELSE submissions
                    /\ resultLog' =
                          [room |-> r, src |-> ev.eid, player |-> p,
                           score |-> ev.score, had |-> rp[p].present,
                           before |-> rp[p].score, after |-> rp2[p].score]
    /\ best' = [best EXCEPT ![r] = Best(@, roomPlayers'[r])]
    /\ UNCHANGED <<poolVars, guildVars, pureVars, response, deleted, jobLog, hubVars, pc, cur, connVars, clock, nextEid, nSubmits,
                   submitDone>>

(* ----------------------------- Code Builder ---------------------------- *)
\* Source text is a sequence of tokens: the two placeholders of Go
\* ("// USER_CODE_HERE", "// IMPORTS_HERE"), the code placeholder of Python,
\* other driver text, uses of the packages fmt and os, text that does not
\* parse.
BuildLanguages == {"Golang", "Python", "Javascript"}
DriverTokens == {"// USER_CODE_HERE", "# USER_CODE_HERE", "// IMPORTS_HERE",
                 "driver"}
UserTokens == {"fmt", "os", "// IMPORTS_HERE", "syntax error"}

SeqsUpTo(S, n) == UNION {[1..k -> S] : k \in 0..n}

BuildInputs ==
    {[lang |-> l, driver |-> d, user |-> u, outs |-> <<>>] :
        l \in BuildLanguages, d \in SeqsUpTo(DriverTokens, MaxDriverLen),
        u \in SeqsUpTo(UserTokens, MaxUserLen)}

\* getLanguagePlaceHolder
getLanguagePlaceHolder(lang) ==
    CASE lang = "Golang" ->
            [codePlaceHolder |-> "// USER_CODE_HERE",
             importPlaceHolder |-> "// IMPORTS_HERE"]
      [] lang = "Python" ->
            [codePlaceHolder |-> "# USER_CODE_HERE", importPlaceHolder |-> ""]
      [] lang = "Javascript" ->
            [codePlaceHolder |-> "// USER_CODE_HERE", importPlaceHolder |-> ""]
      [] OTHER -> [codePlaceHolder |-> "", importPlaceHolder |-> ""]

\* strings.Replace(s, old, new, 1): the first occurrence of old gives way to
\* new; an empty old matches at the start of s; no occurrence, no change.
Replace(s, old, new) ==
    IF old = "" THEN new \o s
    ELSE LET at == {k \in DOMAIN s : s[k] = old}
         IN  IF at = {} THEN s
             ELSE LET k == CHOOSE k \in at : \A m \in at : k <= m
                  IN  SubSeq(s, 1, k - 1) \o new \o SubSeq(s, k + 1, Len(s))

\* pkgAnalyzers: NewGoPackageAnalyzer is the one analyzer there is
HasAnalyzer(lang) == lang = "Golang"

\* GoPackageAnalyzer.Analyze: ErrParsed if the file does not parse, else the
\* set of packages imported or used as pkg.Identifier.
Analyze(code) ==
    IF \E k \in DOMAIN code : code[k] = "syntax error"
    THEN [pkgs |-> {}, err |-> "ErrParsed"]
    ELSE [pkgs |-> {code[k] : k \in DOMAIN code} \cap {"fmt", "os"},
          err |-> "nil"]

\* the orders in which "for pkg := range pkgs" can visit the keys of the map
RangeOrders(pkgs) ==
    {o \in [1..Cardinality(pkgs) -> pkgs] :
        \A a, b \in DOMAIN o : a # b => o[a] # o[b]}

\* generateImports for the keys visited in the given order
generateImports(order) ==
    IF Len(order) = 0 THEN <<>>
    ELSE <<"import (">> \o order \o <<")">>

\* ConcreteCodeBuilder.Build after Sanitize has passed the user code; order
\* is the order in which generateImports happens to range over the packages.
Build(lang, driverCode, userCode, order) ==
    LET placeholder == getLanguagePlaceHolder(lang)
        finalCode == Replace(driverCode, placeholder.codePlaceHolder, userCode)
    IN  IF ~HasAnalyzer(lang) THEN [out |-> finalCode, err |-> "nil"]
        ELSE IF Analyze(finalCode).err = "ErrParsed"
        THEN [out |-> <<>>, err |-> "ErrParsed"]
        ELSE [out |-> Replace(finalCode, placeholder.importPlaceHolder,
                               generateImports(order)),
              err |-> "nil"]

\* One call of Build on the input at hand.
BuildCall ==
    /\ builds.lang # "-"
    /\ Len(builds.outs) < MaxBuilds
    /\ LET finalCode == Replace(builds.driver,
                                getLanguagePlaceHolder(builds.lang).codePlaceHolder,
                                builds.user)
       IN  \E order \in RangeOrders(Analyze(finalCode).pkgs) :
              builds' = [builds EXCEPT !.outs =
                  Append(@, Build(builds.lang, builds.driver, builds.user,
                                  order))]
    /\ UNCHANGED <<poolVars, guildVars, response, deleted, jobLog, hubVars,
                   Events, pc, cur, connVars, goVars, GuildUpdateChan,
                   storeVars, nextEid, nSubmits, histVars, written, direct,
                   run>>

(* --------------------------- JSON responses ---------------------------- *)
\* Go values passed as JSONResponseParameters.Data: nil, the empty string, a
\* string, a map.
JsonData == {"nil", "empty string", "string", "map"}

\* the calls of response.JSON that are tried
JSONResponseParameters ==
    [Status : {"200 OK", "400 Bad Request"}, Data : JsonData,
     Success : BOOLEAN, Msg : {"", "message"},
     ErrMsg : {"", "error message"}]

\* json.Encoder.Encode of a field of type any: nil is written as null, any
\* other value as its JSON text.
Encode(v) ==
    CASE v = "nil" -> "null"
      [] v = "empty string" -> "\"\""
      [] v = "string" -> "\"test data\""
      [] v = "map" -> "{\"key\":\"value\"}"

\* JSONWithHeaders: the JsonResponse it builds from the parameters and writes
\* under the status.
JSONWithHeaders(params) ==
    [sent |-> TRUE,
     status |-> params.Status,
     success |-> params.Success,
     data |-> Encode(params.Data),
     message |-> params.Msg,
     error_message |-> params.ErrMsg]

\* response.JSON(w, params)
JSON ==
    /\ written.params.Status # "-"
    /\ ~written.body.sent
    /\ written' = [written EXCEPT !.body = JSONWithHeaders(written.params)]
    /\ UNCHANGED <<poolVars, guildVars, response, deleted, jobLog, hubVars,
                   Events, pc, cur, connVars, goVars, GuildUpdateChan,
                   storeVars, nextEid, nSubmits, histVars, builds, direct, run>>

(* ----------------------- direct submit handler ------------------------- *)
\* SubmitSolutionHandler up to its call of ExecuteJob: an unknown language or
\* code that does not parse is answered 400; otherwise the submission is
\* inserted as pending (the error of CreateSubmission is not looked at, the
\* handler goes on with the zero id).
SubmitSolutionHandler(p, lang, code, created) ==
    /\ direct.pc = "idle"
    /\ direct.served < MaxDirect
    /\ IF NormalizeLanguage(lang) = "" \/ code # "valid"
       THEN /\ direct' = [NoDirect EXCEPT !.served = direct.served + 1]
            /\ UNCHANGED submissions
       ELSE /\ submissions' = IF created
                              THEN CreateSubmission(submissions, p, "-")
                              ELSE submissions
            /\ direct' = [NoDirect EXCEPT
                             !.pc = "ExecuteJob",
                             !.sub = IF created THEN Len(submissions) + 1 ELSE 0,
                             !.served = direct.served]
    /\ UNCHANGED <<poolVars, guildVars, response, deleted, jobLog, hubVars,
                   Events, pc, cur, connVars, goVars, GuildUpdateChan,
                   roomPlayers, clock, nFailures, nextEid, nSubmits, histVars,
                   builds, written, run>>

\* "result := hr.worker.ExecuteJob(lang, finalCode, testCases)"
DirectExecuteJobReturns(result) ==
    /\ direct.pc = "ExecuteJob"
    /\ direct' = [direct EXCEPT !.pc = "update", !.result = result]
    /\ UNCHANGED <<poolVars, guildVars, response, deleted, jobLog, hubVars,
                   Events, pc, cur, connVars, goVars, GuildUpdateChan,
                   storeVars, nextEid, nSubmits, histVars, builds, written, run>>

\* updateSubmissionStatus whose switch has no default case: status keeps its
\* zero value for a nil or unknown error
SubmissionStatusNoDefault(result) ==
    IF result.Success THEN "accepted"
    ELSE CASE result.Error = "RunTimeError" -> "runtime_error"
           [] result.Error = "CompileError" -> "compilation_error"
           [] result.Error = "FailTestCase" -> "wrong_answer"
           [] OTHER -> ""

\* updateSubmissionStatus: the store.SubmissionStatus it picks for a Result
SubmissionStatus(result) ==
    IF result.Success THEN "accepted"
    ELSE CASE result.Error = "RunTimeError" -> "runtime_error"
           [] result.Error = "CompileError" -> "compilation_error"
           [] result.Error = "FailTestCase" -> "wrong_answer"
           [] OTHER -> "runtime_error"

\* updateSubmissionStatus: the status is written to the row of the submission
\* (to no row for the zero id); an error of the store is answered 500.
updateSubmissionStatus(stored) ==
    /\ direct.pc = "update"
    /\ submissions' =
          IF stored /\ direct.sub # 0
          THEN UpdateSubmissionStatus(submissions, direct.sub,
                                      SubmissionStatus(direct.result))
          ELSE submissions
    /\ direct' = [direct EXCEPT !.pc = "idle",
                                !.status = SubmissionStatus(direct.result),
                                !.served = @ + 1]
    /\ UNCHANGED <<poolVars, guildVars, response, deleted, jobLog, hubVars,
                   Events, pc, cur, connVars, goVars, GuildUpdateChan,
                   roomPlayers, clock, nFailures, nextEid, nSubmits, histVars,
                   builds, written, run>>

(* ----------------------------- worker pool ----------------------------- *)
roomVars == <<guildVars, pureVars, response, deleted,
              hubVars, Events, pc, cur, connVars, goVars, GuildUpdateChan,
              storeVars, nextEid, nSubmits, histVars, jobLog>>

\* what executeJob can come to once the container is marked Busy: one of the
\* Results it puts on job.Result, or a panic while it runs the job
Panic == [Success |-> FALSE, Error |-> "panic"]
Verdicts == (JobResults \ {[Success |-> FALSE, Error |-> "nil"]}) \cup {Panic}

\* ExecuteJob with a send that queues the job whatever the buffer holds
ExecuteJobQueuesAlways ==
    /\ ~crashed
    /\ jobs' = Append(jobs, Len(calls) + 1)
    /\ calls' = Append(calls, [st |-> "waiting", queued |-> TRUE,
                               chan |-> NoJob, result |-> NoJob])
    /\ UNCHANGED <<roomVars, shutdown, workers, containers, crashed>>

\* WorkerPool.ExecuteJob up to its select: the job goes into w.jobs if the
\* buffer has room and the caller waits on the job's Result channel (chan is
\* that channel's one-place buffer); otherwise the default case logs and
\* returns the zero Result.
ExecuteJob ==
    /\ ~crashed
    /\ IF Len(jobs) < MaxJobCount
       THEN /\ jobs' = Append(jobs, Len(calls) + 1)
            /\ calls' = Append(calls, [st |-> "waiting", queued |-> TRUE,
                                       chan |-> NoJob, result |-> NoJob])
       ELSE /\ calls' = Append(calls,
                   [st |-> "returned", queued |-> FALSE, chan |-> NoJob,
                    result |-> [Success |-> FALSE, Error |-> "nil"]])
            /\ UNCHANGED jobs
    /\ UNCHANGED <<roomVars, shutdown, workers, containers, crashed>>

\* "return <-result" of ExecuteJob call j
ExecuteJobResult(j) ==
    /\ ~crashed
    /\ calls[j].st = "waiting"
    /\ calls[j].chan # NoJob
    /\ calls' = [calls EXCEPT ![j].st = "returned", ![j].result = calls[j].chan,
                              ![j].chan = NoJob]
    /\ UNCHANGED <<roomVars, shutdown, jobs, workers, containers, crashed>>

\* WorkerPool.worker: "case j, ok := <-w.jobs" takes the oldest job and calls
\* executeJob.
worker(w) ==
    /\ ~crashed
    /\ workers[w].pc = "select"
    /\ jobs # <<>>
    /\ jobs' = Tail(jobs)
    /\ workers' = [workers EXCEPT ![w].pc = "GetAvailableContainer",
                                  ![w].job = Head(jobs)]
    /\ UNCHANGED <<roomVars, shutdown, calls, containers, crashed>>

\* DockerContainerManager.GetAvailableContainer, the container manager's
\* Acquire: waits for an Idle container and flips it to Busy in one step, or
\* fails.  On failure executeJob logs and returns the error.
GetAvailableContainer(w, ok) ==
    /\ ~crashed
    /\ workers[w].pc = "GetAvailableContainer"
    /\ IF ok
       THEN \E c \in Containers :
               /\ containers[c] = "Idle"
               /\ containers' = [containers EXCEPT ![c] = "Busy"]
               /\ workers' = [workers EXCEPT ![w].pc = "SetContainerState",
                                             ![w].container = c]
       ELSE /\ workers' = [workers EXCEPT ![w] = NoWork]
            /\ UNCHANGED containers
    /\ UNCHANGED <<roomVars, shutdown, jobs, calls, crashed>>

\* executeJob passing StateIdle where it passes StateBusy
SetContainerStateBusyAsIdle(w, ok) ==
    /\ ~crashed
    /\ workers[w].pc = "SetContainerState"
    /\ IF ok
       THEN /\ containers' = [containers EXCEPT ![workers[w].container] = "Idle"]
            /\ workers' = [workers EXCEPT ![w].pc = "run", ![w].marked = TRUE]
       ELSE /\ workers' = [workers EXCEPT ![w] = NoWork]
            /\ UNCHANGED containers
    /\ UNCHANGED <<roomVars, shutdown, jobs, calls, crashed>>

\* executeJob: SetContainerState(containerID, StateBusy); on an error it
\* returns, otherwise it defers SetContainerState(containerID, StateIdle).
SetContainerStateBusy(w, ok) ==
    /\ ~crashed
    /\ workers[w].pc = "SetContainerState"
    /\ IF ok
       THEN /\ containers' = [containers EXCEPT ![workers[w].container] = "Busy"]
            /\ workers' = [workers EXCEPT ![w].pc = "run", ![w].marked = TRUE]
       ELSE /\ workers' = [workers EXCEPT ![w] = NoWork]
            /\ UNCHANGED containers
    /\ UNCHANGED <<roomVars, shutdown, jobs, calls, crashed>>

\* executeJob from the copy of the code to its return statement: every way
\* through sends one Result on job.Result; a panic sends none.
executeJob(w, verdict) ==
    /\ ~crashed
    /\ workers[w].pc = "run"
    /\ IF verdict = Panic
       THEN /\ workers' = [workers EXCEPT ![w].pc = "deferred",
                                          ![w].panicking = TRUE]
            /\ UNCHANGED calls
       ELSE /\ workers' = [workers EXCEPT ![w].pc = "deferred"]
            /\ calls' = [calls EXCEPT ![workers[w].job].chan = verdict]
    /\ UNCHANGED <<roomVars, shutdown, jobs, containers, crashed>>

\* executeJob releasing the container at its return statement only, so that
\* a panic unwinds past the release
SetContainerStateIdleOnReturn(w) ==
    /\ ~crashed
    /\ workers[w].pc = "deferred"
    /\ containers' = IF workers[w].panicking THEN containers
                     ELSE [containers EXCEPT ![workers[w].container] = "Idle"]
    /\ crashed' = workers[w].panicking
    /\ workers' = [workers EXCEPT ![w] = NoWork]
    /\ UNCHANGED <<roomVars, shutdown, jobs, calls>>

\* The deferred SetContainerState(containerID, StateIdle), the container
\* manager's Release, as executeJob returns or unwinds; the worker goes back
\* to its select, or the panic ends the process.
SetContainerStateIdle(w) ==
    /\ ~crashed
    /\ workers[w].pc = "deferred"
    /\ containers' = [containers EXCEPT ![workers[w].container] = "Idle"]
    /\ crashed' = workers[w].panicking
    /\ workers' = [workers EXCEPT ![w] = NoWork]
    /\ UNCHANGED <<roomVars, shutdown, jobs, calls>>

\* Shutdown of the pool, first half: close(w.jobs).  What is buffered stays
\* receivable.
CloseJobs ==
    /\ ~crashed
    /\ ~shutdown.closed
    /\ shutdown' = [shutdown EXCEPT !.closed = TRUE]
    /\ UNCHANGED <<roomVars, jobs, calls, workers, containers, crashed>>

\* Shutdown of the pool, second half: the signal on w.shutdownChan that every
\* worker's select can see.
SignalShutdown ==
    /\ ~crashed
    /\ ~shutdown.signalled
    /\ shutdown' = [shutdown EXCEPT !.signalled = TRUE]
    /\ UNCHANGED <<roomVars, jobs, calls, workers, containers, crashed>>

\* WorkerPool.worker returning from its select: "case <-w.shutdownChan" once
\* the signal is there (whatever w.jobs holds: select picks among the ready
\* cases), or "case j, ok := <-w.jobs" with !ok once the channel is closed
\* and empty.
workerExits(w) ==
    /\ ~crashed
    /\ workers[w].pc = "select"
    /\ shutdown.signalled \/ (shutdown.closed /\ jobs = <<>>)
    /\ workers' = [workers EXCEPT ![w].pc = "exited"]
    /\ UNCHANGED <<roomVars, shutdown, jobs, calls, containers, crashed>>

(* ------------------------- executeJob, the run ------------------------- *)
\* Output text is a sequence of characters, blank or not.
Chars == {" ", "a"}
Outputs == SeqsUpTo(Chars, MaxOutLen)

\* A test case with what running the program on its input does: the command
\* fails (non-zero exit, timeout), or it writes stdout.
TestCases ==
    {[runs |-> FALSE, stdout |-> <<>>, expected |-> e] : e \in Outputs}
    \cup [runs : {TRUE}, stdout : Outputs, expected : Outputs]

\* A job by how far its preparation gets: the copy into the container fails,
\* the language has no CompileCmd, its compile command fails, or passes.
JobSteps == {"copy fails", "not compiled", "compile fails", "compile passes"}

JobInputs == [step : JobSteps, cases : SeqsUpTo(TestCases, MaxTestCases)]

RECURSIVE TrimLeft(_)
TrimLeft(s) == IF s # <<>> /\ Head(s) = " " THEN TrimLeft(Tail(s)) ELSE s

RECURSIVE TrimRight(_)
TrimRight(s) ==
    IF s # <<>> /\ s[Len(s)] = " " THEN TrimRight(SubSeq(s, 1, Len(s) - 1))
    ELSE s

\* strings.TrimSpace
TrimSpace(s) == TrimRight(TrimLeft(s))

\* "actualOutput != expectedOutput" on the outputs as they are
OutputDiffersUntrimmed(tc) == tc.stdout # tc.expected

\* "actualOutput != expectedOutput" after strings.TrimSpace of both
OutputDiffers(tc) == TrimSpace(tc.stdout) # TrimSpace(tc.expected)

\* "for _, tc := range job.TestCases" from test case k on: the test cases run
\* and the Result sent on job.Result.
RECURSIVE RunTestCases(_, _)
RunTestCases(cases, k) ==
    IF k > Len(cases)
    THEN [ran |-> <<>>, verdicts |-> <<[Success |-> TRUE, Error |-> "nil"]>>]
    ELSE IF ~cases[k].runs
    THEN [ran |-> <<k>>,
          verdicts |-> <<[Success |-> FALSE, Error |-> "RunTimeError"]>>]
    ELSE IF OutputDiffers(cases[k])
    THEN [ran |-> <<k>>,
          verdicts |-> <<[Success |-> FALSE, Error |-> "FailTestCase"]>>]
    ELSE LET rest == RunTestCases(cases, k + 1)
         IN  [ran |-> <<k>> \o rest.ran, verdicts |-> rest.verdicts]

\* executeJob going on to the test cases after a failed compile command
executeJobSteps(job) ==
    CASE job.step = "copy fails" ->
            [ran |-> <<>>, verdicts |-> <<[Success |-> FALSE, Error |-> "other"]>>]
      [] job.step = "compile fails" ->
            LET rest == RunTestCases(job.cases, 1)
            IN  [ran |-> rest.ran,
                 verdicts |-> <<[Success |-> FALSE, Error |-> "CompileError"]>>
                              \o rest.verdicts]
      [] OTHER -> RunTestCases(job.cases, 1)

\* executeJob from the copy of the code on: what it sends on job.Result and
\* the test cases it runs.
executeJobFromCopy(job) ==
    CASE job.step = "copy fails" ->
            [ran |-> <<>>, verdicts |-> <<[Success |-> FALSE, Error |-> "other"]>>]
      [] job.step = "compile fails" ->
            [ran |-> <<>>,
             verdicts |-> <<[Success |-> FALSE, Error |-> "CompileError"]>>]
      [] OTHER -> RunTestCases(job.cases, 1)

\* A worker runs the job it holds.
RunJob ==
    /\ run.job.step # "-"
    /\ ~run.done
    /\ run' = [run EXCEPT !.done = TRUE,
                          !.ran = executeJobFromCopy(run.job).ran,
                          !.verdicts = executeJobFromCopy(run.job).verdicts]
    /\ UNCHANGED <<poolVars, guildVars, response, deleted, jobLog, hubVars,
                   Events, pc, cur, connVars, goVars, GuildUpdateChan,
                   storeVars, nextEid, nSubmits, histVars, builds, written,
                   direct>>

(* --------------------------- specifications ----------------------------- *)
\* One step of the system for the inputs and bounds of b.
NextOver(b) ==
    \/ NewEventHub
    \/ \E r \in CreatableRooms : CreateRoom(r)
    \/ \E p \in b.players, r \in b.rooms :
          /\ Len(conns) < b.connects
          /\ b.overlap \/ \A c \in DOMAIN conns : conns[c].st = "closed"
          /\ JoinRoomHandler(p, r)
    \/ \E c \in DOMAIN conns : SendPlayerJoined(c)
    \/ \E c \in DOMAIN conns : WriteSseEvent(c)
    \/ \E c \in DOMAIN conns : ClientDisconnects(c)
    \/ \E c \in DOMAIN conns : SendPlayerLeft(c)
    \/ \E p \in b.players, r \in b.rooms, l \in b.langs, k \in b.codes :
          nSubmits < b.submits /\ SubmitSolutionInRoomHandler(p, r, l, k)
    \/ \E r \in AllRooms, i \in LoopIds, f \in SUBSET JoinedCalls :
          nFailures + Cardinality(f) <= b.failures /\ processPlayerJoined(r, i, f)
    \/ \E r \in AllRooms, i \in LoopIds, f \in SUBSET LeftCalls :
          nFailures + Cardinality(f) <= b.failures /\ processPlayerLeft(r, i, f)
    \/ \E r \in AllRooms, i \in LoopIds, f \in SUBSET SubmittedCalls :
          nFailures + Cardinality(f) <= b.failures
          /\ processSolutionSubmitted(r, i, f)
    \/ \E r \in AllRooms, i \in LoopIds, e \in b.jobResults :
          ExecuteJobReturns(r, i, e)
    \/ \E r \in AllRooms, i \in LoopIds : SendSolutionResult(r, i)
    \/ \E r \in AllRooms, i \in LoopIds, f \in SUBSET ResultCalls :
          nFailures + Cardinality(f) <= b.failures /\ processSolutionResult(r, i, f)
    \/ \E e \in dispatches : dispatchEvent(e)
    \/ \E s \in sends : trySend(s)
    \/ \E ok \in BOOLEAN : EventHubStart(ok)

Bounds ==
    [players |-> Players, rooms |-> RequestRooms, langs |-> LanguageNames,
     codes |-> Codes, jobResults |-> JobResults, connects |-> MaxConnects,
     submits |-> MaxSubmits, failures |-> MaxFailures, overlap |-> TRUE]

Next == NextOver(Bounds)

Spec == Init /\ [][Next]_vars

\* One player who connects, scores, disconnects and only then connects again
\* to the same room; the store and the executor never fail.
RejoinBounds ==
    [players |-> {"p1"}, rooms |-> {"room3"}, langs |-> {"go"},
     codes |-> {"valid"},
     jobResults |-> {[Success |-> TRUE, Error |-> "nil"]},
     connects |-> RejoinConnects,
     submits |-> MaxSubmits, failures |-> 0, overlap |-> FALSE]

NextRejoin == NextOver(RejoinBounds)

SpecRejoin == Init /\ [][NextRejoin]_vars

\* A burst of submissions of one player to a room nobody listens to.
NextBurst ==
    \/ NewEventHub
    \/ \E r \in CreatableRooms : CreateRoom(r)
    \/ nSubmits < BurstSubmits
       /\ SubmitSolutionInRoomHandler("p1", "room3", "go", "valid")
    \/ \E r \in AllRooms, i \in LoopIds : processSolutionSubmitted(r, i, {})
    \/ \E r \in AllRooms, i \in LoopIds :
          ExecuteJobReturns(r, i, [Success |-> FALSE, Error |-> "FailTestCase"])
    \/ \E r \in AllRooms, i \in LoopIds : SendSolutionResult(r, i)
    \/ \E r \in AllRooms, i \in LoopIds : processSolutionResult(r, i, {})
    \/ \E e \in dispatches : dispatchEvent(e)

SpecBackpressure == Init /\ [][NextBurst]_vars

\* Two players listening to one room at the same time; the store never fails.
NextListeners ==
    \/ NewEventHub
    \/ \E r \in CreatableRooms : CreateRoom(r)
    \/ \E p \in Players :
          Len(conns) < ListenConnects /\ JoinRoomHandler(p, "room3")
    \/ \E c \in DOMAIN conns : SendPlayerJoined(c)
    \/ \E c \in DOMAIN conns : WriteSseEvent(c)
    \/ \E c \in DOMAIN conns : ClientDisconnects(c)
    \/ \E c \in DOMAIN conns : SendPlayerLeft(c)
    \/ \E r \in AllRooms, i \in LoopIds : processPlayerJoined(r, i, {})
    \/ \E r \in AllRooms, i \in LoopIds : processPlayerLeft(r, i, {})
    \/ \E e \in dispatches : dispatchEvent(e)
    \/ \E s \in sends : trySend(s)

SpecListeners == Init /\ [][NextListeners]_vars

\* A room whose queue fills up while its loop sits in a long worker job (the
\* ExecuteJob call does not return): one player listens and leaves, the
\* submissions keep coming.
NextFullQueue ==
    \/ NewEventHub
    \/ \E r \in CreatableRooms : CreateRoom(r)
    \/ Len(conns) < MaxConnects /\ JoinRoomHandler("p1", "room3")
    \/ \E c \in DOMAIN conns : SendPlayerJoined(c)
    \/ \E c \in DOMAIN conns : WriteSseEvent(c)
    \/ \E c \in DOMAIN conns : ClientDisconnects(c)
    \/ \E c \in DOMAIN conns : SendPlayerLeft(c)
    \/ nSubmits < BurstSubmits
       /\ SubmitSolutionInRoomHandler("p2", "room3", "go", "valid")
    \/ \E r \in AllRooms, i \in LoopIds : processPlayerJoined(r, i, {})
    \/ \E r \in AllRooms, i \in LoopIds : processPlayerLeft(r, i, {})
    \/ \E r \in AllRooms, i \in LoopIds : processSolutionSubmitted(r, i, {})
    \/ \E e \in dispatches : dispatchEvent(e)
    \/ \E s \in sends : trySend(s)

SpecFullQueue == Init /\ [][NextFullQueue]_vars

\* A room that is deleted while a player listens to it and submits.
NextRoomDeleted ==
    \/ NewEventHub
    \/ \E r \in CreatableRooms : CreateRoom(r)
    \/ Len(conns) < MaxConnects /\ JoinRoomHandler("p1", "room3")
    \/ \E c \in DOMAIN conns : SendPlayerJoined(c)
    \/ \E c \in DOMAIN conns : WriteSseEvent(c)
    \/ SendRoomDeleted("room3")
    \/ nSubmits < MaxSubmits
       /\ SubmitSolutionInRoomHandler("p1", "room3", "go", "valid")
    \/ \E r \in AllRooms, i \in LoopIds : processRoomDeleted(r, i)
    \/ \E r \in AllRooms, i \in LoopIds : processPlayerJoined(r, i, {})
    \/ \E r \in AllRooms, i \in LoopIds : processSolutionSubmitted(r, i, {})
    \/ \E r \in AllRooms, i \in LoopIds :
          ExecuteJobReturns(r, i, [Success |-> TRUE, Error |-> "nil"])
    \/ \E r \in AllRooms, i \in LoopIds : SendSolutionResult(r, i)
    \/ \E r \in AllRooms, i \in LoopIds : processSolutionResult(r, i, {})
    \/ \E e \in dispatches : dispatchEvent(e)
    \/ \E s \in sends : trySend(s)

SpecRoomDeleted == Init /\ [][NextRoomDeleted]_vars

\* A room whose handlers may panic; nothing runs once the process has ended.
NextPanic ==
    \/ ~crashed /\ NewEventHub
    \/ ~crashed /\ \E r \in CreatableRooms : CreateRoom(r)
    \/ ~crashed /\ Len(conns) < MaxConnects /\ JoinRoomHandler("p1", "room3")
    \/ ~crashed /\ \E c \in DOMAIN conns : SendPlayerJoined(c)
    \/ ~crashed /\ \E c \in DOMAIN conns : WriteSseEvent(c)
    \/ ~crashed /\ nSubmits < MaxSubmits
       /\ SubmitSolutionInRoomHandler("p1", "room3", "go", "valid")
    \/ ~crashed /\ \E r \in AllRooms, i \in LoopIds : HandlerPanics(r, i)
    \/ ~crashed
       /\ \E r \in AllRooms, i \in LoopIds : processPlayerJoined(r, i, {})
    \/ ~crashed
       /\ \E r \in AllRooms, i \in LoopIds : processSolutionSubmitted(r, i, {})
    \/ ~crashed
       /\ \E r \in AllRooms, i \in LoopIds :
             ExecuteJobReturns(r, i, [Success |-> TRUE, Error |-> "nil"])
    \/ ~crashed /\ \E r \in AllRooms, i \in LoopIds : SendSolutionResult(r, i)
    \/ ~crashed
       /\ \E r \in AllRooms, i \in LoopIds : processSolutionResult(r, i, {})
    \/ ~crashed /\ \E e \in dispatches : dispatchEvent(e)
    \/ ~crashed /\ \E s \in sends : trySend(s)

SpecPanic == Init /\ [][NextPanic]_vars

\* The Code Builder by itself: Build called on one input, again and again.
InitBuild == InitProgram /\ builds \in BuildInputs /\ PureIdle

NextBuild == BuildCall

SpecBuild == InitBuild /\ [][NextBuild]_vars

\* The Event Hub's own loop: clients listening for guild leaderboards, rooms
\* notifying, the store failing or not.
NextGuild ==
    \/ NewEventHub
    \/ \E r \in CreatableRooms : CreateRoom(r)
    \/ \E ev \in EventIds, c \in Clients : RegisterEventListener(ev, c)
    \/ \E r \in AllRooms :
          guildLog.n + Len(GuildUpdateChan) < MaxNotifies /\ NotifyGuild(r)
    \/ \E ok \in BOOLEAN : EventHubStart(ok)
    \/ \E g \in guildSends, receiving \in BOOLEAN : guildTrySend(g, receiving)

SpecGuild == Init /\ [][NextGuild]_vars

\* The worker pool up to and through its shutdown; no ExecuteJob call is made
\* once the job channel is closed.
NextShutdown ==
    \/ Len(calls) < MaxCalls /\ ~shutdown.closed /\ ExecuteJob
    \/ \E j \in DOMAIN calls : ExecuteJobResult(j)
    \/ \E w \in Workers : worker(w)
    \/ \E w \in Workers, ok \in BOOLEAN : GetAvailableContainer(w, ok)
    \/ \E w \in Workers, ok \in BOOLEAN : SetContainerStateBusy(w, ok)
    \/ \E w \in Workers, v \in Verdicts : executeJob(w, v)
    \/ \E w \in Workers : SetContainerStateIdle(w)
    \/ CloseJobs
    \/ SignalShutdown
    \/ \E w \in Workers : workerExits(w)

SpecShutdown == Init /\ [][NextShutdown]_vars

\* One player who opens a second connection to the room while the first one
\* stays open, and scores; a store call of processPlayerJoined may fail.
NextSecondConnection ==
    \/ NewEventHub
    \/ \E r \in CreatableRooms : CreateRoom(r)
    \/ Len(conns) < RejoinConnects /\ JoinRoomHandler("p1", "room3")
    \/ \E c \in DOMAIN conns : SendPlayerJoined(c)
    \/ \E c \in DOMAIN conns : WriteSseEvent(c)
    \/ nSubmits < MaxSubmits
       /\ SubmitSolutionInRoomHandler("p1", "room3", "go", "valid")
    \/ \E r \in AllRooms, i \in LoopIds, f \in SUBSET JoinedCalls :
          nFailures + Cardinality(f) <= MaxFailures /\ processPlayerJoined(r, i, f)
    \/ \E r \in AllRooms, i \in LoopIds : processSolutionSubmitted(r, i, {})
    \/ \E r \in AllRooms, i \in LoopIds :
          ExecuteJobReturns(r, i, [Success |-> TRUE, Error |-> "nil"])
    \/ \E r \in AllRooms, i \in LoopIds : SendSolutionResult(r, i)
    \/ \E r \in AllRooms, i \in LoopIds : processSolutionResult(r, i, {})
    \/ \E e \in dispatches : dispatchEvent(e)
    \/ \E s \in sends : trySend(s)

SpecSecondConnection == Init /\ [][NextSecondConnection]_vars

\* response.JSON over every parameter record tried.
InitJSON ==
    /\ InitProgram
    /\ builds = NoBuild
    /\ direct = NoDirect
    /\ run = NoRun
    /\ written \in [params : JSONResponseParameters, body : {NoBody}]

NextJSON == JSON

SpecJSON == InitJSON /\ [][NextJSON]_vars

\* executeJob over every job tried.
InitRun ==
    /\ InitProgram
    /\ builds = NoBuild
    /\ written = NoWritten
    /\ direct = NoDirect
    /\ run \in [job : JobInputs, verdicts : {<<>>}, ran : {<<>>}, done : {FALSE}]

NextRun == RunJob

SpecRun == InitRun /\ [][NextRun]_vars

\* One player of a room whose submissions are all accepted, each posted when
\* the room has come to rest after the one before, while EventHub.Start sits
\* in a fetch and takes nothing from the guild channel; a store call may fail
\* while the first or the last result is handled.
NextGuildFull ==
    \/ NewEventHub
    \/ \E r \in CreatableRooms : CreateRoom(r)
    \/ conns = <<>> /\ JoinRoomHandler("p1", "room3")
    \/ \E c \in DOMAIN conns : SendPlayerJoined(c)
    \/ \E c \in DOMAIN conns : WriteSseEvent(c)
    \/ \E r \in AllRooms, i \in LoopIds : processPlayerJoined(r, i, {})
    \/ /\ nSubmits < FillSubmits
       /\ roomPlayers["room3"]["p1"].present
       /\ Events["room3"] = <<>>
       /\ \A i \in LoopIds : pc["room3"][i] = "idle"
       /\ dispatches = {} /\ sends = {}
       /\ \A c \in DOMAIN conns : conns[c].st = "select"
       /\ SubmitSolutionInRoomHandler("p1", "room3", "go", "valid")
    \/ \E r \in AllRooms, i \in LoopIds : processSolutionSubmitted(r, i, {})
    \/ \E r \in AllRooms, i \in LoopIds :
          ExecuteJobReturns(r, i, [Success |-> TRUE, Error |-> "nil"])
    \/ \E r \in AllRooms, i \in LoopIds : SendSolutionResult(r, i)
    \/ \E r \in AllRooms, i \in LoopIds, f \in SUBSET ResultCalls :
          /\ nFailures + Cardinality(f) <= MaxFailures
          /\ f # {} => nSubmits \in {1, FillSubmits}
          /\ processSolutionResult(r, i, f)
    \/ \E e \in dispatches : dispatchEvent(e)
    \/ \E s \in sends : trySend(s)

SpecGuildFull == Init /\ [][NextGuildFull]_vars

\* The direct submit handler serving one request after the other.
NextDirect ==
    \/ \E p \in Players, l \in LanguageNames, k \in Codes, created \in BOOLEAN :
          SubmitSolutionHandler(p, l, k, created)
    \/ \E result \in JobResults : DirectExecuteJobReturns(result)
    \/ \E stored \in BOOLEAN : updateSubmissionStatus(stored)

SpecDirect == Init /\ [][NextDirect]_vars

(* ------------------------------- claims --------------------------------- *)
\* C1: every room registered in the Event Hub, seeded by NewEventHub or added
\* by CreateRoom, has exactly one goroutine running RoomHub.Start on its
\* Events channel.
C1_ExactlyOneLoop == \A r \in Rooms : loops[r] = 1

\* C2: every submission row inserted as pending gets exactly one
\* UpdateSubmissionStatus to a terminal status.  In finite runs: a row is
\* either still on its way (a loop is running or about to re-enqueue its job,
\* or its SolutionResult waits in the queue) and untouched, or it has been
\* updated exactly once and is terminal.
C2_PendingRowFinalized ==
    \A id \in DOMAIN submissions :
        LET onItsWay ==
                \E r \in AllRooms :
                    \/ \E i \in LoopIds : /\ pc[r][i] \in {"ExecuteJob", "send"}
                                          /\ cur[r][i].sub = id
                    \/ \E k \in DOMAIN Events[r] : /\ Events[r][k].kind = "Result"
                                                   /\ Events[r][k].sub = id
        IN  IF onItsWay
            THEN submissions[id].status = "pending" /\ submissions[id].updates = 0
            ELSE /\ submissions[id].updates = 1
                 /\ submissions[id].status \in
                       {"accepted", "wrong_answer", "runtime_error",
                        "compilation_error", "limit_exceed"}

\* C3: for every SolutionSubmitted a loop consumes, processSolutionSubmitted
\* has enqueued exactly one SolutionResult on the room's Events by the time it
\* returns.
C3_OneResultPerSubmitted == submitDone.eid # 0 => submitDone.results = 1

\* C4: the room loop never blocks forever.  In finite runs: no room is ever
\* in the state where each of its loops sits in the re-enqueue of a
\* SolutionResult while the room's Events channel holds EventsCap events, for
\* nothing but these loops takes events off the channel.
C4_LoopNeverStuck ==
    \A r \in Rooms :
        ~ /\ Len(Events[r]) = EventsCap
          /\ \A i \in 1..loops[r] : pc[r][i] = "send"

\* C5: a room's events are handled in the order they were accepted, and every
\* SSE send attempt caused by one event has been made before a loop begins
\* the next: whatever dispatch or sender goroutine is still to run belongs to
\* the event taken last.
C5_FifoAndSendsBeforeNext ==
    /\ \A r \in AllRooms : \A k \in DOMAIN Events[r] :
          /\ Events[r][k].eid > begun[r]
          /\ \A j \in 1..(k - 1) : Events[r][j].eid < Events[r][k].eid
    /\ \A e \in dispatches : e.src = begun[e.room]
    /\ \A s \in sends : s.ev.src = begun[s.ev.room]

\* C6: a handler run that dispatches CORRECT_SOLUTION_SUBMITTED also
\* dispatches, for the same result, a LEADERBOARD_UPDATED whose entries show
\* the submitter's score after the add.
C6_CorrectComesWithLeaderboard ==
    \A r \in AllRooms : \A k \in DOMAIN dispatched[r] :
        dispatched[r][k].type = "CORRECT_SOLUTION_SUBMITTED" =>
            \E j \in DOMAIN dispatched[r] :
                /\ dispatched[r][j].type = "LEADERBOARD_UPDATED"
                /\ dispatched[r][j].src = dispatched[r][k].src
                /\ (resultLog.room = r /\ resultLog.src = dispatched[r][k].src) =>
                      \A en \in dispatched[r][j].data :
                          en.player = resultLog.player =>
                              en.score = resultLog.before + resultLog.score

\* C7: every listener receives the room's SSE events in the order the loop
\* produced them: the event a connection received last was produced after the
\* one it received before.
C7_ListenerSeesProductionOrder ==
    \A c \in DOMAIN conns : conns[c].prev # 0 => conns[c].prev < conns[c].last

\* C8: once a loop has processed an Accepted SolutionResult with Score s for
\* (room, user), the user's score in the room is exactly s higher than before.
\* Stated for a user who holds a row of the room when the result is handled.
C8_AcceptedAddsScore ==
    (resultLog.src # 0 /\ resultLog.had) =>
        resultLog.after = resultLog.before + resultLog.score

\* C9: after a loop has handled an event, every room player's place is the
\* player's rank by (score descending, joined_at ascending).
C9_PlaceIsRank ==
    \A r \in AllRooms, p \in Players :
        roomPlayers[r][p].present =>
            roomPlayers[r][p].place = Rank(roomPlayers[r], p)

\* C10: a user's score in a room never decreases over PlayerJoined, PlayerLeft
\* and SolutionResult events: the row of (room, user) never shows less than
\* the highest score it has shown.
C10_ScoreNeverDecreases ==
    \A r \in AllRooms, p \in Players :
        roomPlayers[r][p].present => roomPlayers[r][p].score >= best[r][p]

\* C11: a submission's status is written exactly twice, pending at creation
\* and one terminal status at verdict, and a terminal status is never written
\* over.  With updates counting the writes after the insert: no row is updated
\* twice, a row is pending exactly as long as it has not been updated, and a
\* row that nothing carries any more (no loop works on it, no SolutionResult
\* for it is queued) has had its second write.
C11_StatusWrittenTwice ==
    \A id \in DOMAIN submissions :
        /\ submissions[id].updates <= 1
        /\ submissions[id].status = "pending" <=> submissions[id].updates = 0
        /\ (\A r \in AllRooms :
               /\ \A i \in LoopIds : cur[r][i].sub # id
               /\ \A k \in DOMAIN Events[r] : Events[r][k].sub # id)
           => submissions[id].updates = 1

\* C12: when a loop handles a non-accepted SolutionResult and updates the
\* submission row, the row gets the terminal status that corresponds to the
\* result's status: CompilationError gives compilation_error, RuntimeError
\* gives runtime_error, WrongAnswer gives wrong_answer.
C12_RowGetsResultStatus ==
    [][\A r \in AllRooms :
          LET ev == Head(Events[r])
          IN  ( /\ Events[r] # <<>>
                /\ ev.kind = "Result"
                /\ ev.status # "Accepted"
                /\ begun'[r] = ev.eid
                /\ begun[r] # ev.eid
                /\ submissions'[ev.sub].updates = submissions[ev.sub].updates + 1 )
              => submissions'[ev.sub].status =
                    CASE ev.status = "CompilationError" -> "compilation_error"
                      [] ev.status = "RuntimeError" -> "runtime_error"
                      [] OTHER -> "wrong_answer"]_vars

\* C13: the SolutionResult a loop builds from a worker verdict carries the
\* problem's score when its status is Accepted and Score 0 for every other
\* status.  The second half, on every SolutionResult a loop holds for sending
\* or has put on a queue: not Accepted means Score 0.
C13_RejectedResultScoresZero ==
    \A r \in AllRooms :
        /\ \A i \in LoopIds :
              (pc[r][i] = "send" /\ cur[r][i].status # "Accepted")
                  => cur[r][i].score = 0
        /\ \A k \in DOMAIN Events[r] :
              (Events[r][k].kind = "Result" /\ Events[r][k].status # "Accepted")
                  => Events[r][k].score = 0

\* C14: a loop produces an Accepted SolutionResult only for a worker verdict
\* with Success = true; the zero Result of a job the full job queue rejected
\* never becomes Accepted.
C14_AcceptedOnlyOnSuccess ==
    \A r \in AllRooms, i \in LoopIds :
        (pc[r][i] = "send" /\ cur[r][i].status = "Accepted")
            => jobLog[r][i].Success

\* The worker pool by itself: callers of ExecuteJob, the workers and the
\* container manager.
NextPool ==
    \/ Len(calls) < MaxCalls /\ ExecuteJob
    \/ \E j \in DOMAIN calls : ExecuteJobResult(j)
    \/ \E w \in Workers : worker(w)
    \/ \E w \in Workers, ok \in BOOLEAN : GetAvailableContainer(w, ok)
    \/ \E w \in Workers, ok \in BOOLEAN : SetContainerStateBusy(w, ok)
    \/ \E w \in Workers, v \in Verdicts : executeJob(w, v)
    \/ \E w \in Workers : SetContainerStateIdle(w)

SpecPool == Init /\ [][NextPool]_vars

\* C15: the jobs waiting in the queue never number more than MaxJobCount, and
\* an ExecuteJob call made while the queue is full has returned at once with
\* Success false: it never waits and its job is in no queue and with no worker.
C15_QueueBounded ==
    /\ Len(jobs) <= MaxJobCount
    /\ \A j \in DOMAIN calls :
          ~calls[j].queued =>
              /\ calls[j].st = "returned"
              /\ ~calls[j].result.Success
              /\ \A k \in DOMAIN jobs : jobs[k] # j
              /\ \A w \in Workers : workers[w].job # j

C15_Witness ==
    \E j \in DOMAIN calls :
        ~calls[j].queued /\ Len(jobs) = MaxJobCount /\ calls[j].st = "returned"

C18_AcceptedJobGetsResult ==
    \A j \in DOMAIN calls :
        calls[j].st = "waiting" =>
            \/ \E k \in DOMAIN jobs : jobs[k] = j
            \/ \E w \in Workers : workers[w].job = j
            \/ calls[j].chan # NoJob

\* C19: a listener that does not read holds nothing up.  In every step: a
\* scheduled dispatch can run and an offer can be made whatever the listeners
\* are doing; a dispatch to all leaves one offer for every registered
\* listener; an offer to a listener waiting in its select hands the event
\* over; and a step in which a room loop starts dispatches touches no
\* listener channel.
C19_SilentListenerBlocksNothing ==
    [][/\ \A e \in dispatches :
             (Goroutines - 1
                + Cardinality({Listerners[e.room][p] : p \in Players} \ {0})
                    <= MaxGoroutines)
                 => ENABLED dispatchEvent(e)
       /\ \A s \in sends : ENABLED trySend(s)
       /\ \A e \in dispatches \ dispatches' :
             e.to = "all" =>
                 \A p \in Players :
                     Listerners[e.room][p] # 0 =>
                         [conn |-> Listerners[e.room][p], ev |-> e] \in sends'
       /\ \A s \in sends \ sends' :
             conns[s.conn].st = "select" => conns'[s.conn].last = s.ev.seq
       /\ \A r \in AllRooms :
             dispatched'[r] # dispatched[r] => (conns' = conns /\ sends' = sends)
      ]_vars

\* one event offered to two listeners: the one still blocked before its read
\* loop has the offer pending, the other has received the event
C19_Witness ==
    \E c1 \in DOMAIN conns, c2 \in DOMAIN conns :
        /\ c1 # c2
        /\ conns[c1].room = conns[c2].room
        /\ conns[c1].st = "joining"
        /\ conns[c2].last > 0
        /\ \E s \in sends : s.conn = c1 /\ s.ev.seq = conns[c2].last

\* C20: WRONG_SOLUTION_SUBMITTED is offered only on the channel registered
\* under the id of the player who submitted.
C20_WrongSolutionToSubmitterOnly ==
    \A s \in sends :
        s.ev.type = "WRONG_SOLUTION_SUBMITTED" =>
            /\ conns[s.conn].player = s.ev.to
            /\ conns[s.conn].room = s.ev.room
            /\ \E id \in DOMAIN submissions :
                  /\ submissions[id].player = conns[s.conn].player
                  /\ submissions[id].room = s.ev.room
                  /\ submissions[id].status = "wrong_answer"

C20_Witness ==
    \E s \in sends :
        /\ s.ev.type = "WRONG_SOLUTION_SUBMITTED"
        /\ conns[s.conn].player = s.ev.to

\* C21: SubmitSolutionInRoomHandler never waits for the room queue.  Each call
\* made while the queue holds EventsCap events leaves every queue as it was
\* and answers 503; each other call appends its SolutionSubmitted to the
\* room's queue and answers 202.
C21_SubmitNeverBlocks ==
    [][nSubmits' # nSubmits =>
          LET r == response'.room
          IN  IF Len(Events[r]) >= EventsCap
              THEN /\ Events' = Events
                   /\ response'.status = "503 Service Unavailable"
              ELSE /\ Len(Events'[r]) = Len(Events[r]) + 1
                   /\ SubSeq(Events'[r], 1, Len(Events[r])) = Events[r]
                   /\ Events'[r][Len(Events'[r])].kind = "Submitted"
                   /\ \A q \in AllRooms \ {r} : Events'[q] = Events[q]
                   /\ response'.status = "202 Accepted"]_vars

C21_Witness ==
    /\ response.status = "503 Service Unavailable"
    /\ Len(Events[response.room]) = EventsCap

\* C22: a disconnecting client's PlayerLeft is never waiting for room in the
\* queue: no sender of a PlayerLeft stands at its send while the room's queue
\* is full.
C22_PlayerLeftNeverWaits ==
    \A c \in leftPending : Len(Events[conns[c].room]) < EventsCap

\* C23: JoinRoomHandler is never held at its PlayerJoined send by a full
\* queue.
C23_JoinNeverWaits ==
    \A c \in DOMAIN conns :
        conns[c].st = "joining" => Len(Events[conns[c].room]) < EventsCap

\* C24: once a loop has handled RoomDeleted for a room, the room takes no
\* further event: no send to its queue succeeds and its loop takes nothing
\* more from the queue.
C24_DeletedRoomTakesNoEvent ==
    [][\A r \in AllRooms :
          deleted[r] => /\ Len(Events'[r]) <= Len(Events[r])
                        /\ begun'[r] = begun[r]]_vars

\* C25: a panic in a handler never ends a room loop: no loop has been unwound
\* by a panic, and the process is running, so that the loop can take the
\* events that follow.
C25_HandlerPanicRecovered ==
    \A r \in AllRooms, i \in LoopIds :
        pc[r][i] = "panicked" => ~crashed

\* C26: Build is deterministic: the calls made with one language, driver and
\* user code all return the same.
C26_BuildDeterministic ==
    \A a, b \in DOMAIN builds.outs : builds.outs[a] = builds.outs[b]

\* C27: Build puts the user code in place of the driver's first code
\* placeholder and the imports in place of the driver's first imports
\* placeholder, and a placeholder the driver does not have changes nothing:
\* the output is the driver with its own first imports placeholder marked,
\* the user code put in, and the mark turned into the imports.
C27_PlaceholdersOfDriverOnly ==
    \A a \in DOMAIN builds.outs :
        (builds.lang = "Golang" /\ builds.outs[a].err = "nil") =>
            LET marked == Replace(builds.driver, "// IMPORTS_HERE",
                                  <<"imports go here">>)
                coded == Replace(marked, "// USER_CODE_HERE", builds.user)
            IN  \E order \in RangeOrders(
                        Analyze(Replace(builds.driver, "// USER_CODE_HERE",
                                        builds.user)).pkgs) :
                    builds.outs[a].out =
                        Replace(coded, "imports go here",
                                generateImports(order))

\* C28: a room submission whose code the Code Builder rejects with ParseError
\* ends as a compilation error without being executed.  In the step in which
\* a loop handles such a submission and inserts its row, the row becomes
\* compilation_error, or a SolutionResult with status CompilationError for
\* the row is in the queue or about to be sent by the loop.
C28_ParseErrorIsCompilationError ==
    [][\A r \in AllRooms :
          (/\ Events[r] # <<>>
           /\ Head(Events[r]).kind = "Submitted"
           /\ Head(Events[r]).code = "unparsable"
           /\ begun'[r] = Head(Events[r]).eid
           /\ begun[r] # Head(Events[r]).eid
           /\ Len(submissions') = Len(submissions) + 1)
          => LET id == Len(submissions')
             IN  \/ submissions'[id].status = "compilation_error"
                 \/ \E i \in LoopIds :
                       /\ pc'[r][i] = "send"
                       /\ cur'[r][i].sub = id
                       /\ cur'[r][i].status = "CompilationError"
                 \/ \E k \in DOMAIN Events'[r] :
                       /\ Events'[r][k].kind = "Result"
                       /\ Events'[r][k].sub = id
                       /\ Events'[r][k].status = "CompilationError"]_vars

\* C29: EventHub.Start, for an event id it takes off GuildUpdateChan: if the
\* leaderboard was read, one non-blocking offer is started for every listener
\* registered under that id and for nobody else, otherwise none; and the
\* loop never waits on a listener: with an id in the channel it can take its
\* turn, and every offer can be made, whatever the listeners do.
C29_GuildUpdateToItsListeners ==
    [][/\ Len(GuildUpdateChan') < Len(GuildUpdateChan) =>
             guildSends' =
                 IF guildLog'.ok
                 THEN guildSends \cup
                      {[client |-> c, event |-> Head(GuildUpdateChan),
                        n |-> guildLog'.n] :
                          c \in EventListeners[Head(GuildUpdateChan)]}
                 ELSE guildSends
       /\ (hubUp /\ GuildUpdateChan # <<>>) => ENABLED EventHubStart(TRUE)
       /\ \A g \in guildSends : ENABLED guildTrySend(g, FALSE)
      ]_vars

\* an update offered to the listener of its event while a client listening
\* to the other event only is offered nothing
C29_Witness ==
    \E g \in guildSends, c \in Clients :
        /\ g.client \in EventListeners[g.event]
        /\ c # g.client
        /\ c \notin EventListeners[g.event]
        /\ \E ev \in EventIds : c \in EventListeners[ev]
        /\ \A h \in guildSends : h.client # c

\* C30: shutdown abandons no accepted job: when every worker has exited, no
\* job is left in the job channel.
C30_NoJobAbandoned ==
    (\A w \in Workers : workers[w].pc = "exited") => jobs = <<>>

\* C31: a room holds one RoomPlayer row per user at most: a loop that handles
\* PlayerJoined for a user who has a row inserts nothing and leaves the
\* score of that row as it is.
C31_JoinedAgainKeepsRow ==
    [][\A r \in AllRooms :
          (/\ Events[r] # <<>>
           /\ Events'[r] = Tail(Events[r])
           /\ Head(Events[r]).kind = "Joined"
           /\ roomPlayers[r][Head(Events[r]).player].present)
          => LET p == Head(Events[r]).player
             IN  /\ roomPlayers'[r][p].present
                 /\ roomPlayers'[r][p].score = roomPlayers[r][p].score
                 /\ roomPlayers'[r][p].joined = roomPlayers[r][p].joined
                 /\ clock' = clock]_vars

\* PlayerJoined was handled for a player who had scored before and the score
\* is still there.
C31_Witness ==
    \E r \in AllRooms, p \in Players :
        /\ dispatched[r] # <<>>
        /\ dispatched[r][1].type = "PLAYER_JOINED"
        /\ resultLog.room = r
        /\ resultLog.player = p
        /\ resultLog.src < dispatched[r][1].src
        /\ roomPlayers[r][p].present
        /\ roomPlayers[r][p].score = AcceptedScore

\* C32: a registered listener whose handler keeps reading receives both
\* events a handler of the loop dispatches back to back: once the senders of
\* PLAYER_JOINED and LEADERBOARD_UPDATED, the first two events of the room,
\* are through, the connection that was registered before its PlayerJoined
\* went into the queue has received the two.
C32_BackToBackBothReceived ==
    \A r \in AllRooms :
        (/\ nSse[r] = 2
         /\ Len(dispatched[r]) = 2
         /\ dispatched[r][1].type = "PLAYER_JOINED"
         /\ \A e \in dispatches : e.room # r
         /\ \A s \in sends : s.ev.room # r
         /\ Len(conns) = 1
         /\ conns[1].room = r
         /\ conns[1].st \in {"select", "writing"})
        => {conns[1].prev, conns[1].last}
               = {dispatched[r][1].seq, dispatched[r][2].seq}

\* C33: a JSON response built with Success = true carries a null data field
\* whatever the Data parameter is; one built with Success = false carries the
\* value of the Data parameter.
C33_DataNullOnSuccess ==
    written.body.sent =>
        written.body.data = IF written.params.Success THEN "null"
                            ELSE Encode(written.params.Data)

\* C34: when the compile command of a language with a CompileCmd fails, the
\* worker sends exactly one verdict, CompileError without Success, and runs
\* no test case of the job.
C34_CompileFailureStopsJob ==
    (run.done /\ run.job.step = "compile fails") =>
        /\ run.verdicts = <<[Success |-> FALSE, Error |-> "CompileError"]>>
        /\ run.ran = <<>>

\* the compile command failed for a job whose test cases would all pass
C34_Witness ==
    /\ run.done
    /\ run.job.step = "compile fails"
    /\ run.job.cases # <<>>
    /\ \A k \in DOMAIN run.job.cases :
          run.job.cases[k].runs /\ run.job.cases[k].stdout = run.job.cases[k].expected

\* C35: the worker runs the test cases in the given order and stops at the
\* first one whose run fails or whose trimmed stdout differs from the trimmed
\* expected output; its one verdict has Success exactly when every test case
\* was run and matched.
C35_StopsAtFirstFailingCase ==
    (run.done /\ run.job.step \in {"not compiled", "compile passes"}) =>
        LET cases == run.job.cases
            bad == {k \in DOMAIN cases :
                       \/ ~cases[k].runs
                       \/ TrimSpace(cases[k].stdout) # TrimSpace(cases[k].expected)}
            n == IF bad = {} THEN Len(cases)
                 ELSE CHOOSE k \in bad : \A j \in bad : k <= j
        IN  /\ run.ran = [k \in 1..n |-> k]
            /\ Len(run.verdicts) = 1
            /\ run.verdicts[1].Success <=> bad = {}

\* a job of two test cases passed although the program's output and the
\* expected output differ in their blanks
C35_Witness ==
    /\ run.done
    /\ Len(run.ran) = MaxTestCases
    /\ run.verdicts = <<[Success |-> TRUE, Error |-> "nil"]>>
    /\ \E k \in DOMAIN run.job.cases :
          run.job.cases[k].stdout # run.job.cases[k].expected

\* C36: a loop that handles an accepted result notifies the guild channel
\* with a non-blocking send, and only when the score was added; with 100
\* notifications in the channel the step is still taken, the notification is
\* dropped and, the store permitting, the leaderboard is recomputed, its two
\* events are dispatched and the submission is finalized.
C36_GuildNotifyNeverBlocks ==
    [][\A r \in AllRooms :
          LET ev == Head(Events[r])
              p  == ev.player
              rp == roomPlayers[r]
          IN  /\ (/\ Events[r] # <<>>
                  /\ ev.kind = "Result" /\ ev.status = "Accepted"
                  /\ pc[r][1] = "idle" /\ loops[r] >= 1
                  /\ Goroutines + 2 <= MaxGoroutines)
                 => ENABLED processSolutionResult(r, 1, {})
              /\ (/\ Events[r] # <<>>
                  /\ Events'[r] = Tail(Events[r])
                  /\ ev.kind = "Result" /\ ev.status = "Accepted")
                 => /\ GuildUpdateChan' # GuildUpdateChan
                       => /\ GuildUpdateChan' = Append(GuildUpdateChan, EventID(r))
                          /\ rp[p].present
                                => roomPlayers'[r][p].score = rp[p].score + ev.score
                    /\ Len(GuildUpdateChan) = GuildUpdateCap
                       => /\ GuildUpdateChan' = GuildUpdateChan
                          /\ nFailures' = nFailures
                                => /\ roomPlayers'[r] = CalculateRoomLeaderboard(
                                          AddRoomPlayerScore(rp, p, ev.score))
                                   /\ Len(dispatched'[r]) = 2
                                   /\ dispatched'[r][1].type = "CORRECT_SOLUTION_SUBMITTED"
                                   /\ dispatched'[r][2].type = "LEADERBOARD_UPDATED"
                                   /\ submissions'[ev.sub].status = "accepted"]_vars

\* an accepted result was handled while the guild channel held 100
\* notifications: its score is on the board and its submission is accepted
C36_Witness ==
    /\ Len(GuildUpdateChan) = GuildUpdateCap
    /\ Len(submissions) = GuildUpdateCap + 1
    /\ submissions[GuildUpdateCap + 1].status = "accepted"
    /\ resultLog.room = "room3"
    /\ resultLog.after = (GuildUpdateCap + 1) * AcceptedScore
    /\ Len(dispatched["room3"]) = 2
    /\ dispatched["room3"][1].src = resultLog.src

\* C37: updateSubmissionStatus of the direct submit handler maps every Result
\* of the worker to a terminal status, never to pending: accepted with
\* Success; otherwise runtime_error, compilation_error or wrong_answer by the
\* kind of error, and runtime_error for a nil or unknown error.
C37_ResultMapsToTerminalStatus ==
    direct.status # "-" =>
        /\ direct.status \in {"accepted", "runtime_error", "compilation_error",
                              "wrong_answer"}
        /\ direct.status = "accepted" <=> direct.result.Success
        /\ ~direct.result.Success =>
              /\ direct.status = "runtime_error"
                    <=> direct.result.Error \in {"RunTimeError", "nil", "other"}
              /\ direct.status = "compilation_error"
                    <=> direct.result.Error = "CompileError"
              /\ direct.status = "wrong_answer"
                    <=> direct.result.Error = "FailTestCase"
        /\ direct.sub # 0 => submissions[direct.sub].status \in {"pending", direct.status}

\* the zero Result of a full job queue was mapped and written to the row
C37_Witness ==
    /\ direct.status = "runtime_error"
    /\ direct.result = [Success |-> FALSE, Error |-> "nil"]
    /\ direct.sub # 0
    /\ submissions[direct.sub].status = "runtime_error"

\* C38: an SSE handler that exits removes only the channel it registered: the
\* latest connection a player has opened to a room stays registered for as
\* long as it is open, whatever earlier connections of the player do.
C38_ExitRemovesOwnListenerOnly ==
    \A c \in DOMAIN conns :
        (/\ conns[c].st # "closed"
         /\ \A d \in DOMAIN conns :
               (d > c) => ~(conns[d].room = conns[c].room
                            /\ conns[d].player = conns[c].player))
        => Listerners[conns[c].room][conns[c].player] = c

\* C39: no sender goroutine of a dispatch tries its send on the channel of a
\* connection whose handler has closed it.
C39_NoSendOnClosedChannel ==
    [][\A s \in sends : s \notin sends' => conns[s.conn].st # "closed"]_vars

\* C40: when AddRoomPlayerScore fails for an accepted result, the step of the
\* loop has no outward effect: the guild channel, the dispatch goroutines and
\* every row of room_players are as before.
C40_FailedScoreHasNoEffect ==
    [][\A r \in AllRooms :
          LET ev == Head(Events[r])
          IN  (/\ Events[r] # <<>>
               /\ Events'[r] = Tail(Events[r])
               /\ ev.kind = "Result" /\ ev.status = "Accepted"
               /\ roomPlayers[r][ev.player].present
               /\ roomPlayers'[r][ev.player].score = roomPlayers[r][ev.player].score
               /\ nFailures' > nFailures)
              => /\ GuildUpdateChan' = GuildUpdateChan
                 /\ dispatches' = dispatches
                 /\ sends' = sends
                 /\ dispatched'[r] = <<>>
                 /\ roomPlayers' = roomPlayers]_vars

\* the latest event a loop took is an accepted result of a player with a row
\* whose score could not be added
C40_Witness ==
    \E r \in AllRooms :
        /\ nFailures > 0
        /\ resultLog.room = r
        /\ resultLog.src = begun[r]
        /\ resultLog.had
        /\ resultLog.after = resultLog.before
        /\ dispatched[r] = <<>>
        /\ GuildUpdateChan = <<>>
====
